---- MODULE Spec2Model ----
(***************************************************************************)
(* Grip: mail-sync orchestration (SyncService.execute_sync), the recurring *)
(* bill projector (BillService.mark_paid, _calculate_next_recurrence) and  *)
(* the obligations ledger (BillService.get_obligations_ledger).            *)
(***************************************************************************)
EXTENDS Integers, Sequences, FiniteSets, TLC

(***************************************************************************)
(* Bounds of the model.                                                    *)
(***************************************************************************)
\* number of distinct mail messages that can arrive
MaxMsgs == 2
\* last value of the wall clock, in hours
MaxTime == 2
\* number of execute_sync runs (SyncLog rows) in one behaviour
MaxRuns == 3
\* calendar years covered by the reference dates of the recurrence function
NumYears == 2
\* days the bill lifecycle is followed for, from FirstDay on
NumDays == 66
\* mark_paid is followed while the due date is at most this many days past the last day
MaxAhead == 45
\* rows of the Transaction table the ledger reads
MaxTxns == 2
\* largest max_retries _call_intelligence_engine is called with
MaxRetries == 2
\* rows of the Transaction table when matching across periods is studied
MatchTxns == 3

(***************************************************************************)
(* Program constants.                                                      *)
(***************************************************************************)
\* timedelta(hours=1) subtracted in _get_last_sync_time
OverlapHours == 1
\* maxResults of the Gmail list call
MaxResults == 50

VARIABLES
    now,                \* wall clock, whole hours
    mailbox,            \* messages in the Gmail account: set of [id, internalDate]
    gmail_credentials,  \* User.gmail_credentials is set
    notifications,      \* number of notify_gmail_disconnection calls made
    logs,               \* the SyncLog table, in insertion order
    transactions,       \* the Transaction table, in insertion order
    run,                \* per worker: the locals of its execute_sync call
    today,              \* BillService._get_today()
    bills,              \* the Bill table, in insertion order
    last_mark_paid,     \* the last mark_paid(paid=true) on a recurring bill: {} or {[id, due_date, today]}
    reference_date,     \* argument of the _calculate_next_recurrence call under study
    recurrence_day,     \* argument of the _calculate_next_recurrence call under study
    next_date,          \* its result ({} before the call)
    exclusions,         \* the BillExclusion table
    ledger,             \* the last get_obligations_ledger response ({} when none is held)
    llm,                \* LLMService settings: which AI endpoints are configured
    brain               \* the last call into the extraction pipeline or LLMService ({} when none)

syncVars == <<now, mailbox, gmail_credentials, notifications, logs, transactions, run>>
billVars == <<today, bills, last_mark_paid>>
recurVars == <<reference_date, recurrence_day, next_date>>
ledgerVars == <<exclusions, ledger>>
brainVars == <<llm, brain>>

vars == <<syncVars, billVars, recurVars, ledgerVars, brainVars>>

Procs == {1, 2}
MsgIds == 1..MaxMsgs
Times == 0..MaxTime
None == {}

(***************************************************************************)
(* call_brain_api: the candidates the extraction pipeline can hand back.   *)
(***************************************************************************)
_fallback_txn ==
    [amount |-> 0, merchant_name |-> "UNCATEGORIZED", category |-> "Uncategorized",
     transaction_type |-> "DEBIT"]

\* results of the rule engine / AI paths for some message text
BrainCandidates ==
    {_fallback_txn,
     [amount |-> 0, merchant_name |-> "Shop", category |-> "Food", transaction_type |-> "DEBIT"],
     [amount |-> 100, merchant_name |-> "Shop", category |-> "Food", transaction_type |-> "DEBIT"],
     [amount |-> 250, merchant_name |-> "Employer", category |-> "Income", transaction_type |-> "CREDIT"]}

\* what the collaborators do while one message is processed: the candidate
\* call_brain_api returns unless it raises, and whether the merchant-mapping
\* lookup or create_transaction raises
Choices ==
    {c \in [cand : BrainCandidates, brain_raises : BOOLEAN, persist_raises : BOOLEAN,
            mapping : {None}] :
        /\ c.brain_raises => (c.cand = _fallback_txn /\ ~c.persist_raises)
        /\ c.persist_raises => c.cand.amount # 0}

\* candidates of either sign and direction, "Dr" being a direction the AI made up
SignCandidates ==
    [amount : {100, -100}, merchant_name : {"Shop"}, category : {"Food", "Income"},
     transaction_type : {"DEBIT", "CREDIT", "Dr"}]

\* the same with what get_merchant_mapping finds: no mapping, or its default_category
SignChoices ==
    [cand : SignCandidates, brain_raises : {FALSE}, persist_raises : {FALSE},
     mapping : {None, {"Food"}, {"Income"}}]

(***************************************************************************)
(* The fingerprint: sha256 of "<id>:<internalDate>".  SHA-256 is modelled  *)
(* as injective on its payload, the payload as the pair it is built from.  *)
(***************************************************************************)
content_hash(msg) == <<msg.id, msg.internalDate>>

\* TransactionService.get_transaction_by_hash on the table txns
get_transaction_by_hash(txns, h) ==
    {i \in DOMAIN txns : txns[i].raw_content_hash = h}

\* a store with no uniqueness rule on raw_content_hash
StoreAccepts_NoConstraint(txns, h) == TRUE

\* the store's uniqueness rule on raw_content_hash: create_transaction may insert h
StoreAccepts(txns, h) == get_transaction_by_hash(txns, h) = {}

\* _get_last_sync_time that also counts runs which processed no record
_get_last_sync_time_AnySuccess(lg) ==
    LET rows == {i \in DOMAIN lg : lg[i].status = "SUCCESS"}
    IN  IF rows = {} THEN {}
        ELSE LET first == CHOOSE i \in rows :
                              \A j \in rows : lg[j].start_time <= lg[i].start_time
             IN  {lg[first].start_time - 1}

(***************************************************************************)
(* _get_last_sync_time: newest SUCCESS log with records_processed > 0,     *)
(* minus one hour; None when there is none.                                *)
(***************************************************************************)
_get_last_sync_time(lg) ==
    LET rows == {i \in DOMAIN lg : /\ lg[i].status = "SUCCESS"
                                   /\ lg[i].records_processed > 0}
    IN  IF rows = {} THEN None
        ELSE LET first == CHOOSE i \in rows :
                              \A j \in rows : lg[j].start_time <= lg[i].start_time
             IN  {lg[first].start_time - OverlapHours}

\* _log_start: a new IN_PROGRESS row stamped with the current time
_log_start(lg, t) ==
    Append(lg, [start_time |-> t, status |-> "IN_PROGRESS", records_processed |-> 0,
                error_message |-> "", summary |-> <<>>])

\* _log_end: row i with status, count, error and (if non-empty) summary
_log_end(lg, i, status, count, error, summary) ==
    [lg EXCEPT ![i] =
        [@ EXCEPT !.status = status,
                  !.records_processed = count,
                  !.error_message = error,
                  !.summary = IF summary # <<>> THEN summary ELSE @]]

\* Gmail's answer to the query: the messages not older than the bound
Matching(mb, bound) ==
    {m \in mb : bound = None \/ \A t \in bound : m.internalDate >= t}

\* messages().list order: newest first
RECURSIVE NewestFirst(_)
NewestFirst(S) ==
    IF S = {} THEN <<>>
    ELSE LET m == CHOOSE x \in S : \A y \in S :
                      \/ y.internalDate < x.internalDate
                      \/ (y.internalDate = x.internalDate /\ y.id <= x.id)
         IN  <<m>> \o NewestFirst(S \ {m})

\* the locals of execute_sync before the call
IdleRun ==
    [pc |-> "idle", log |-> 0, after |-> None, messages |-> <<>>, idx |-> 0,
     extracted |-> _fallback_txn, processed_count |-> 0, dedup_skipped |-> 0,
     llm_failed |-> 0, zero_amount_skipped |-> 0, sync_summary |-> <<>>,
     brain_calls |-> 0, raisedAt |-> 0]

\* the tables a run reads and writes
World ==
    [logs |-> logs, transactions |-> transactions, notifications |-> notifications,
     gmail_credentials |-> gmail_credentials]

(***************************************************************************)
(* execute_sync, one operator per awaited stretch of the code.  Each takes *)
(* the tables w and the locals l and gives the pair after the stretch.     *)
(***************************************************************************)
\* an except block that notifies on every failure
SyncFailed_AlwaysNotify(w, l, disconnected, error) ==
    [w |-> [w EXCEPT !.logs = _log_end(w.logs, l.log, "FAILED", 0, error, <<>>),
                     !.notifications = @ + 1],
     l |-> [l EXCEPT !.pc = "done"]]

\* the except block of execute_sync
SyncFailed(w, l, disconnected, error) ==
    [w |-> [w EXCEPT !.logs = _log_end(w.logs, l.log, "FAILED", 0, error, <<>>),
                     !.notifications = IF disconnected THEN @ + 1 ELSE @],
     l |-> [l EXCEPT !.pc = "done"]]

\* log = await self._log_start(user_id, source)
sync_log_start(w, t) ==
    [w |-> [w EXCEPT !.logs = _log_start(w.logs, t)],
     l |-> [IdleRun EXCEPT !.pc = "fetch", !.log = Len(w.logs) + 1]]

\* _get_last_sync_time and fetch_gmail_changes; outcome is what Gmail does
sync_fetch(w, l, mb, outcome) ==
    LET start_time == _get_last_sync_time(w.logs)
        la == [l EXCEPT !.after = start_time]
    IN  IF ~w.gmail_credentials
        THEN [w |-> [w EXCEPT !.logs = _log_end(w.logs, l.log, "SUCCESS", 0, "", <<>>)],
              l |-> [la EXCEPT !.pc = "done"]]
        ELSE IF outcome = "REFRESH_FAILED"
        THEN SyncFailed([w EXCEPT !.gmail_credentials = FALSE], la, TRUE,
                        "Gmail connection lost. Please reconnect.")
        ELSE IF outcome = "INVALID_GRANT"
        THEN SyncFailed(w, la, TRUE, "Gmail connection lost. Please reconnect.")
        ELSE IF outcome = "ERROR"
        THEN SyncFailed(w, la, FALSE, "HttpError")
        ELSE LET all == NewestFirst(Matching(mb, start_time))
                 got == SubSeq(all, 1, IF Len(all) < MaxResults THEN Len(all)
                                       ELSE MaxResults)
             IN  IF got = <<>>
                 THEN [w |-> [w EXCEPT !.logs =
                                  _log_end(w.logs, l.log, "SUCCESS", 0, "", <<>>)],
                       l |-> [la EXCEPT !.pc = "done"]]
                 ELSE [w |-> w,
                       l |-> [la EXCEPT !.pc = "dedup", !.messages = got, !.idx = 1]]

\* the loop head without the fingerprint lookup
sync_check_dedup_NoLookup(w, l) ==
    IF l.idx > Len(l.messages)
    THEN [w |-> [w EXCEPT !.logs = _log_end(w.logs, l.log, "SUCCESS",
                                            l.processed_count, "", l.sync_summary)],
          l |-> [l EXCEPT !.pc = "done"]]
    ELSE [w |-> w, l |-> [l EXCEPT !.pc = "brain"]]

\* for msg in messages: fingerprint lookup; after the last message, _log_end
sync_check_dedup(w, l) ==
    IF l.idx > Len(l.messages)
    THEN [w |-> [w EXCEPT !.logs = _log_end(w.logs, l.log, "SUCCESS",
                                            l.processed_count, "", l.sync_summary)],
          l |-> [l EXCEPT !.pc = "done"]]
    ELSE IF get_transaction_by_hash(w.transactions, content_hash(l.messages[l.idx])) # {}
    THEN [w |-> w, l |-> [l EXCEPT !.dedup_skipped = @ + 1, !.idx = @ + 1]]
    ELSE [w |-> w, l |-> [l EXCEPT !.pc = "brain"]]

\* the same stretch without the zero-amount skip
sync_call_brain_api_KeepZero(w, l, c) ==
    LET lb == [l EXCEPT !.brain_calls = @ + 1]
    IN  IF c.brain_raises
        THEN SyncFailed(w, [lb EXCEPT !.raisedAt = l.idx], FALSE, "ValueError")
        ELSE [w |-> w, l |-> [lb EXCEPT !.extracted = c.cand, !.pc = "persist"]]

\* sanitize, call_brain_api, and the zero-amount skip
sync_call_brain_api(w, l, c) ==
    LET lb == [l EXCEPT !.brain_calls = @ + 1]
    IN  IF c.brain_raises
        THEN SyncFailed(w, [lb EXCEPT !.raisedAt = l.idx], FALSE, "ValueError")
        ELSE IF c.cand.amount = 0
        THEN [w |-> w,
              l |-> IF c.cand.merchant_name \in {"UNCATEGORIZED", "UNKNOWN"}
                    THEN [lb EXCEPT !.llm_failed = @ + 1, !.idx = @ + 1, !.pc = "dedup"]
                    ELSE [lb EXCEPT !.zero_amount_skipped = @ + 1, !.idx = @ + 1,
                                    !.pc = "dedup"]]
        ELSE [w |-> w, l |-> [lb EXCEPT !.extracted = c.cand, !.pc = "persist"]]

\* sign of the stored amount
final_amount(cand, cat) ==
    LET magnitude == IF cand.amount < 0 THEN -cand.amount ELSE cand.amount
    IN  IF cand.transaction_type = "DEBIT" /\ cat # "Income" THEN -magnitude
        ELSE IF cat = "Income" \/ cand.transaction_type = "CREDIT" THEN magnitude
        ELSE -magnitude

\* get_merchant_mapping, create_transaction, wealth match, summary entry
sync_persist(w, l, c) ==
    LET h == content_hash(l.messages[l.idx])
        cand == l.extracted
        cat == IF c.mapping = None THEN cand.category ELSE CHOOSE m \in c.mapping : TRUE
        lr == [l EXCEPT !.extracted = _fallback_txn]
    IN  IF c.persist_raises
        THEN SyncFailed(w, [lr EXCEPT !.raisedAt = l.idx], FALSE, "DBAPIError")
        ELSE IF ~StoreAccepts(w.transactions, h)
        THEN SyncFailed(w, [lr EXCEPT !.raisedAt = l.idx], FALSE, "IntegrityError")
        ELSE [w |-> [w EXCEPT !.transactions = Append(@,
                         [raw_content_hash |-> h,
                          amount |-> final_amount(cand, cat),
                          merchant_name |-> cand.merchant_name,
                          category |-> cat])],
              l |-> [lr EXCEPT !.sync_summary = Append(@, [id |-> Len(w.transactions) + 1]),
                               !.processed_count = @ + 1,
                               !.idx = @ + 1,
                               !.pc = "dedup"]]

\* the next stretch of the loop, by position
sync_step(w, l, c) ==
    IF l.pc = "dedup" THEN sync_check_dedup(w, l)
    ELSE IF l.pc = "brain" THEN sync_call_brain_api(w, l, c)
    ELSE sync_persist(w, l, c)

\* the for loop to its end; choices[i] is what happens at messages[i]
RECURSIVE sync_loop(_, _, _)
sync_loop(w, l, choices) ==
    IF l.pc \notin {"dedup", "brain", "persist"} THEN [w |-> w, l |-> l]
    ELSE LET s == IF l.idx > Len(l.messages) THEN sync_check_dedup(w, l)
                  ELSE sync_step(w, l, choices[l.idx])
         IN  sync_loop(s.w, s.l, choices)


(***************************************************************************)
(* Dates: datetime.date as [year, month, day], calendar.monthrange,        *)
(* comparison and timedelta arithmetic through the day number.             *)
(***************************************************************************)
Years == 2023..(2023 + NumYears + 1)

date(y, m, d) == [year |-> y, month |-> m, day |-> d]

IsLeap(y) == (y % 4 = 0 /\ y % 100 # 0) \/ y % 400 = 0

\* calendar.monthrange(y, m)[1]
monthrange(y, m) ==
    IF m = 2 THEN (IF IsLeap(y) THEN 29 ELSE 28)
    ELSE IF m \in {4, 6, 9, 11} THEN 30 ELSE 31

Min(a, b) == IF a <= b THEN a ELSE b

DateLt(a, b) ==
    \/ a.year < b.year
    \/ a.year = b.year /\ a.month < b.month
    \/ a.year = b.year /\ a.month = b.month /\ a.day < b.day

DateLe(a, b) == a = b \/ DateLt(a, b)

RECURSIVE DaysBeforeYear(_)
DaysBeforeYear(y) ==
    IF y <= 2023 THEN 0
    ELSE DaysBeforeYear(y - 1) + (IF IsLeap(y - 1) THEN 366 ELSE 365)

RECURSIVE DaysBeforeMonth(_, _)
DaysBeforeMonth(y, m) ==
    IF m <= 1 THEN 0 ELSE DaysBeforeMonth(y, m - 1) + monthrange(y, m - 1)

\* days since 2023-01-01
toordinal(d) == DaysBeforeYear(d.year) + DaysBeforeMonth(d.year, d.month) + d.day - 1

RECURSIVE FromOrdinalIn(_, _, _)
FromOrdinalIn(n, y, m) ==
    IF n < monthrange(y, m) THEN date(y, m, n + 1)
    ELSE IF m = 12 THEN FromOrdinalIn(n - monthrange(y, m), y + 1, 1)
    ELSE FromOrdinalIn(n - monthrange(y, m), y, m + 1)

fromordinal(n) == FromOrdinalIn(n, 2023, 1)

\* d + timedelta(days=n)
AddDays(d, n) == fromordinal(toordinal(d) + n)

(***************************************************************************)
(* BillService._calculate_next_recurrence.                                 *)
(***************************************************************************)
\* the comparison written > instead of >=
_calculate_next_recurrence_Strict(r_day, ref) ==
    LET this == date(ref.year, ref.month, Min(r_day, monthrange(ref.year, ref.month)))
        ny == IF ref.month = 12 THEN ref.year + 1 ELSE ref.year
        nm == IF ref.month = 12 THEN 1 ELSE ref.month + 1
    IN  IF this.day >= 1 /\ DateLt(ref, this) THEN this
        ELSE date(ny, nm, Min(r_day, monthrange(ny, nm)))

_calculate_next_recurrence(r_day, ref) ==
    LET this == date(ref.year, ref.month, Min(r_day, monthrange(ref.year, ref.month)))
        next_year == IF ref.month = 12 THEN ref.year + 1 ELSE ref.year
        next_month == IF ref.month = 12 THEN 1 ELSE ref.month + 1
    IN  \* date() raises ValueError for a day below 1, which the try block passes over
        IF this.day >= 1 /\ DateLe(ref, this) THEN this
        ELSE date(next_year, next_month, Min(r_day, monthrange(next_year, next_month)))

(***************************************************************************)
(* Bills: create_bill and mark_paid on one Bill row.                        *)
(***************************************************************************)
FirstDay == date(2023, 12, 28)
LastDay == AddDays(FirstDay, NumDays - 1)
BillDates == {AddDays(FirstDay, n) : n \in 0..(NumDays - 1)}

\* recurrence_day as the schemas accept it; 0 stands for None
RecurrenceDays == {0, 1, 15, 28, 29, 30, 31}

\* BillCreate payloads
BillCreates ==
    [amount : {499}, sub_category : {"Netflix"}, due_date : BillDates,
     is_recurring : BOOLEAN, recurrence_day : RecurrenceDays]

\* create_bill: the row built from the payload
create_bill_row(data) ==
    [amount |-> data.amount,
     sub_category |-> data.sub_category,
     due_date |-> data.due_date,
     is_paid |-> FALSE,
     is_recurring |-> data.is_recurring,
     recurrence_day |-> IF data.is_recurring /\ data.recurrence_day = 0
                        THEN data.due_date.day ELSE data.recurrence_day]

\* mark_paid without the step into the month after the current due date
mark_paid_row_NoForce(bill, paid, tday) ==
    IF paid /\ bill.is_recurring
    THEN LET r_day == IF bill.recurrence_day # 0 THEN bill.recurrence_day
                      ELSE bill.due_date.day
             first == _calculate_next_recurrence(r_day, tday)
         IN  [bill EXCEPT !.due_date = first, !.is_paid = FALSE]
    ELSE [bill EXCEPT !.is_paid = paid]

\* mark_paid: the row after the call
mark_paid_row(bill, paid, tday) ==
    IF paid /\ bill.is_recurring
    THEN LET r_day == IF bill.recurrence_day # 0 THEN bill.recurrence_day
                      ELSE bill.due_date.day
             first == _calculate_next_recurrence(r_day, tday)
             next_due == IF DateLe(first, bill.due_date)
                         THEN _calculate_next_recurrence(r_day, AddDays(bill.due_date, 32))
                         ELSE first
         IN  [bill EXCEPT !.due_date = next_due, !.is_paid = FALSE]
    ELSE [bill EXCEPT !.is_paid = paid]

NextDay ==
    /\ DateLt(today, LastDay)
    /\ today' = AddDays(today, 1)
    /\ last_mark_paid' = {}
    /\ ledger' = {}
    /\ UNCHANGED <<bills, syncVars, recurVars, exclusions, brainVars>>

create_bill(data) ==
    /\ bills = <<>>
    /\ bills' = Append(bills, create_bill_row(data))
    /\ last_mark_paid' = {}
    /\ ledger' = {}
    /\ UNCHANGED <<today, syncVars, recurVars, exclusions, brainVars>>

mark_paid(bill_id, paid) ==
    /\ bill_id \in DOMAIN bills
    /\ toordinal(bills[bill_id].due_date) <= toordinal(LastDay) + MaxAhead
    /\ bills' = [bills EXCEPT ![bill_id] = mark_paid_row(@, paid, today)]
    /\ last_mark_paid' = IF paid /\ bills[bill_id].is_recurring
                         THEN {[id |-> bill_id, due_date |-> bills[bill_id].due_date,
                                today |-> today]}
                         ELSE {}
    /\ ledger' = {}
    /\ UNCHANGED <<today, syncVars, recurVars, exclusions, brainVars>>

\* a BillUpdate payload: fields is what the request set (model_dump with
\* exclude_unset), the other record fields are its values where set
BillUpdate(fields, amount, due_date, is_recurring, r_day) ==
    [fields |-> fields, amount |-> amount, due_date |-> due_date,
     is_recurring |-> is_recurring, recurrence_day |-> r_day]

\* the payloads sent to update_bill; recurrence_day 0 stands for an explicit null
BillUpdates ==
    {BillUpdate({"is_recurring"}, 0, FirstDay, b, 0) : b \in BOOLEAN}
    \cup {BillUpdate({"is_recurring", "recurrence_day"}, 0, FirstDay, TRUE, d) : d \in {0, 5}}
    \cup {BillUpdate({"recurrence_day"}, 0, FirstDay, FALSE, d) : d \in {0, 5}}
    \cup {BillUpdate({"is_recurring", "due_date"}, 0, date(2024, 2, 20), TRUE, 0),
          BillUpdate({"due_date"}, 0, date(2024, 2, 20), FALSE, 0),
          BillUpdate({"amount"}, -200, FirstDay, FALSE, 0)}

\* update_bill: the row after the call
update_bill_row(bill, data) ==
    LET given(f) == f \in data.fields
        defaulted == /\ given("is_recurring") /\ data.is_recurring
                     /\ ~(given("recurrence_day") /\ data.recurrence_day # 0)
                     /\ bill.recurrence_day = 0
        due_date == IF given("due_date") THEN data.due_date ELSE bill.due_date
    IN  [bill EXCEPT
            !.amount = IF given("amount") THEN data.amount ELSE @,
            !.due_date = IF given("due_date") THEN data.due_date ELSE @,
            !.is_recurring = IF given("is_recurring") THEN data.is_recurring ELSE @,
            !.recurrence_day = IF defaulted THEN due_date.day
                               ELSE IF given("recurrence_day") THEN data.recurrence_day
                               ELSE @]

update_bill(bill_id, data) ==
    /\ bill_id \in DOMAIN bills
    /\ bills' = [bills EXCEPT ![bill_id] = update_bill_row(@, data)]
    /\ last_mark_paid' = {}
    /\ ledger' = {}
    /\ UNCHANGED <<today, syncVars, recurVars, exclusions, brainVars>>

BillsInit ==
    /\ today \in BillDates
    /\ bills = <<>>
    /\ last_mark_paid = {}

BillsIdle ==
    /\ today = FirstDay
    /\ bills = <<>>
    /\ last_mark_paid = {}

(***************************************************************************)
(* The recurrence function on its own: every recurrence day and reference  *)
(* date of the covered years.                                              *)
(***************************************************************************)
ReferenceDates ==
    {date(y, m, d) : y \in 2023..(2023 + NumYears - 1), m \in 1..12, d \in 1..31}
        \ {x \in [year : 2023..(2023 + NumYears - 1), month : 1..12, day : 29..31] :
               x.day > monthrange(x.year, x.month)}

RecurInit ==
    /\ reference_date \in ReferenceDates
    /\ recurrence_day \in 1..31
    /\ next_date = {}

RecurIdle ==
    /\ reference_date = date(2023, 1, 1)
    /\ recurrence_day = 1
    /\ next_date = {}

calculate_next_recurrence ==
    /\ next_date = {}
    /\ next_date' = {_calculate_next_recurrence(recurrence_day, reference_date)}
    /\ UNCHANGED <<reference_date, recurrence_day, syncVars, billVars, ledgerVars, brainVars>>

(***************************************************************************)
(* LLMService.  A text is the set of the pieces it is made of, a piece     *)
(* being harmless or one the PII patterns recognise, together with whether *)
(* it has been through a sanitization pass.                                *)
(***************************************************************************)
\* pieces the PII patterns match: a UPI handle and a phone number
PiiPieces == {"ravi@okbank", "9876543210"}

\* pattern.sub(label, text) for one piece
Redact(piece) ==
    CASE piece = "ravi@okbank" -> "<UPI>"
      [] piece = "9876543210" -> "<PHONE>"
      [] OTHER -> piece

Text(pieces, sanitized) == [pieces |-> pieces, sanitized |-> sanitized]

_sanitize_for_external(text) == Text({Redact(piece) : piece \in text.pieces}, TRUE)

\* an f-string around a text
Format(template, text) == Text({template} \cup text.pieces, text.sanitized)

\* what an endpoint may answer with: nothing, text that is not JSON, or a JSON value
Json(kind, obj) == [kind |-> kind, obj |-> obj]

JsonObject(amount, merchant_name, category, sub_category) ==
    [amount |-> amount, merchant_name |-> merchant_name, category |-> category,
     sub_category |-> sub_category]

\* a JSON number, and a JSON string that float() rejects
Number(n) == [type |-> "number", value |-> n]
NonNumeric(str) == [type |-> "string", value |-> str]

\* the object with no key at all
EmptyObject == JsonObject(None, None, None, None)

EmptyContent == Json("empty", EmptyObject)

\* JSON objects an endpoint returns; a key is absent ({}) or holds one value
AIObjects ==
    {EmptyObject,
     JsonObject({Number(120)}, {"Cafe"}, {"Food"}, {"Dining"}),
     JsonObject({Number(999)}, {"Cafe"}, {""}, None),
     JsonObject({NonNumeric("twelve")}, {"Cafe"}, {"Food"}, {"Dining"}),
     JsonObject(None, None, {"Food"}, {"Dining"})}

Contents ==
    {EmptyContent, Json("text", EmptyObject), Json("array", EmptyObject),
     Json("null", EmptyObject)}
        \cup {Json("object", obj) : obj \in AIObjects}

\* what one HTTP request ends in
Response(status, content) == [kind |-> "response", status |-> status, content |-> content]
Timeout == [kind |-> "timeout", status |-> 0, content |-> EmptyContent]
ConnectionError == [kind |-> "error", status |-> 0, content |-> EmptyContent]

Failures == {Response(400, EmptyContent), Response(503, EmptyContent), Timeout, ConnectionError}

HttpOutcomes == {Response(200, c) : c \in Contents} \cup Failures

NoReply == [content |-> None, sent |-> <<>>]

Request(endpoint, payload, outcome) ==
    [endpoint |-> endpoint, payload |-> payload, outcome |-> outcome]

\* the retry loop that re-sends after every failure
RECURSIVE _call_intelligence_engine_RetryAll(_, _, _, _, _)
_call_intelligence_engine_RetryAll(prompt, outcomes, max_retries, attempt, sent) ==
    IF attempt > max_retries THEN [content |-> None, sent |-> sent]
    ELSE LET o == outcomes[attempt + 1]
             log == Append(sent, Request("engine", prompt, o))
         IN  IF o.kind = "response" /\ o.status = 200
             THEN [content |-> IF o.content # EmptyContent THEN {o.content} ELSE None,
                   sent |-> log]
             ELSE IF attempt < max_retries
             THEN _call_intelligence_engine_RetryAll(prompt, outcomes, max_retries,
                                                     attempt + 1, log)
             ELSE [content |-> None, sent |-> log]

\* the for loop of _call_intelligence_engine from the given attempt on;
\* outcomes[k] is what the k-th request ends in
RECURSIVE _call_intelligence_engine(_, _, _, _, _)
_call_intelligence_engine(prompt, outcomes, max_retries, attempt, sent) ==
    IF attempt > max_retries THEN [content |-> None, sent |-> sent]
    ELSE LET o == outcomes[attempt + 1]
             log == Append(sent, Request("engine", prompt, o))
         IN  IF o.kind = "response"
             THEN IF o.status = 200
                  THEN [content |-> IF o.content # EmptyContent THEN {o.content} ELSE None,
                        sent |-> log]
                  ELSE IF o.status >= 500 /\ attempt < max_retries
                  THEN _call_intelligence_engine(prompt, outcomes, max_retries,
                                                 attempt + 1, log)
                  ELSE [content |-> None, sent |-> log]
             ELSE IF o.kind = "timeout" /\ attempt < max_retries
             THEN _call_intelligence_engine(prompt, outcomes, max_retries, attempt + 1, log)
             ELSE [content |-> None, sent |-> log]

\* one request, whatever it ends in
_call_groq(prompt, outcome) ==
    [content |-> IF outcome.kind = "response" /\ outcome.status = 200
                 THEN {outcome.content} ELSE None,
     sent |-> <<Request("groq", prompt, outcome)>>]

\* system_prompt of generate_json
SystemPrompt == "You are a financial intelligence engine. Always output valid JSON."

\* not content
Falsy(reply) == reply.content = None \/ reply.content = {EmptyContent}

\* generate_response: the engine first, with the default max_retries of 0, then Groq
generate_response(prompt, cfg, engine_outcome, groq_outcome) ==
    LET hf_res == IF cfg.intelligence_url
                  THEN _call_intelligence_engine(Format(SystemPrompt, prompt),
                                                 <<engine_outcome>>, 0, 0, <<>>)
                  ELSE NoReply
    IN  IF ~Falsy(hf_res) THEN hf_res
        ELSE IF cfg.groq_api_key
        THEN LET groq == _call_groq(_sanitize_for_external(prompt), groq_outcome)
             IN  [content |-> groq.content, sent |-> hf_res.sent \o groq.sent]
        ELSE [content |-> None, sent |-> hf_res.sent]

\* generate_json: data is what json.loads gives, {} standing for None
generate_json(prompt, cfg, engine_outcome, groq_outcome) ==
    LET reply == generate_response(prompt, cfg, engine_outcome, groq_outcome)
        content == CHOOSE c \in reply.content : TRUE
    IN  IF Falsy(reply) THEN [data |-> None, sent |-> reply.sent]
        ELSE IF content.kind \in {"text", "null"} THEN [data |-> None, sent |-> reply.sent]
        ELSE [data |-> {content}, sent |-> reply.sent]

is_enabled(cfg) == cfg.intelligence_url \/ cfg.groq_api_key

(***************************************************************************)
(* RuleBasedExtractor.extract over what the patterns find in a message.    *)
(***************************************************************************)
\* len(AMOUNT_PATTERNS); the last pattern is the bare fallback
NumAmountPatterns == 5

\* per amount pattern, in order: no match ({}) or the number matched
AmountMatches ==
    {<<{}, {}, {}, {}, {}>>,
     <<{450}, {}, {}, {}, {450}>>,
     <<{}, {}, {0}, {}, {450}>>,
     <<{}, {}, {}, {}, {450}>>,
     <<{}, {0}, {}, {}, {}>>}

RECURSIVE extract_amount_from(_, _)
extract_amount_from(matches, i) ==
    IF i > NumAmountPatterns THEN [amount |-> 0, is_confident |-> FALSE]
    ELSE IF matches[i] # {} /\ (CHOOSE a \in matches[i] : TRUE) > 0
    THEN [amount |-> CHOOSE a \in matches[i] : TRUE, is_confident |-> i < NumAmountPatterns]
    ELSE extract_amount_from(matches, i + 1)

extract_amount(matches) == extract_amount_from(matches, 1)

\* CATEGORY_MAP and the keyword maps, for the merchants of the model
categorize(merchant) ==
    IF merchant = "Swiggy" THEN <<"Food", "Food Delivery">>
    ELSE <<"Uncategorized", "Uncategorized">>

\* messages as the extractor sees them
BrainMessages ==
    [passes_classifier : BOOLEAN,
     amounts : AmountMatches,
     merchant : {None, {"Swiggy"}},
     transaction_type : {"DEBIT", "CREDIT"},
     raw_body : {{"debited from your account"},
                 {"debited from your account", "ravi@okbank"}}]

\* an extract that does not ask the classifier
extract_NoGate(msg) ==
    LET found == extract_amount(msg.amounts)
        merchant == IF msg.merchant = None THEN "UNKNOWN"
                    ELSE CHOOSE name \in msg.merchant : TRUE
    IN  IF found.amount = 0 THEN None
        ELSE {[amount |-> found.amount,
               currency |-> "INR",
               merchant_name |-> merchant,
               category |-> categorize(merchant)[1],
               sub_category |-> categorize(merchant)[2],
               account_type |-> "SAVINGS",
               transaction_type |-> msg.transaction_type,
               extracted_date |-> {"05-01-2024"},
               _source |-> IF found.is_confident THEN "RULE_ENGINE"
                           ELSE "RULE_ENGINE_BARE_FALLBACK",
               _needs_llm_fallback |-> ~found.is_confident \/ merchant = "UNKNOWN"]}

\* extract: {} for None, else the one result
extract(msg) ==
    LET found == extract_amount(msg.amounts)
        merchant == IF msg.merchant = None THEN "UNKNOWN"
                    ELSE CHOOSE name \in msg.merchant : TRUE
    IN  IF ~msg.passes_classifier THEN None
        ELSE IF found.amount = 0 THEN None
        ELSE {[amount |-> found.amount,
               currency |-> "INR",
               merchant_name |-> merchant,
               category |-> categorize(merchant)[1],
               sub_category |-> categorize(merchant)[2],
               account_type |-> "SAVINGS",
               transaction_type |-> msg.transaction_type,
               extracted_date |-> {"05-01-2024"},
               _source |-> IF found.is_confident THEN "RULE_ENGINE"
                           ELSE "RULE_ENGINE_BARE_FALLBACK",
               _needs_llm_fallback |-> ~found.is_confident \/ merchant = "UNKNOWN"]}

\* rule_result after the two pops
Candidate(rule_result) ==
    [amount |-> rule_result.amount,
     currency |-> rule_result.currency,
     merchant_name |-> rule_result.merchant_name,
     category |-> rule_result.category,
     sub_category |-> rule_result.sub_category,
     account_type |-> rule_result.account_type,
     transaction_type |-> rule_result.transaction_type,
     extracted_date |-> rule_result.extracted_date]

(***************************************************************************)
(* call_brain_api and its two AI paths.  A call gives the candidate        *)
(* returned ({} when it raises), the exception raised and the requests     *)
(* sent.                                                                   *)
(***************************************************************************)
Returned(candidate, sent) == [candidate |-> {candidate}, raised |-> None, sent |-> sent]
Raised(exception, sent) == [candidate |-> None, raised |-> {exception}, sent |-> sent]

\* data.get(key) or default
GetOr(field, default) ==
    IF field = None \/ field = {""} THEN default ELSE CHOOSE v \in field : TRUE

\* an enrichment that also takes the amount the AI answers with
_groq_enrich_TakesAmount(text, rule_result, cfg, engine_outcome, groq_outcome) ==
    LET reply == generate_json(Format("extract ONLY the merchant name and spending category",
                                      text), cfg, engine_outcome, groq_outcome)
        data == CHOOSE d \in reply.data : TRUE
    IN  IF reply.data = None \/ reply.data = {Json("object", EmptyObject)}
        THEN Returned(rule_result, reply.sent)
        ELSE IF data.kind # "object" THEN Raised("AttributeError", reply.sent)
        ELSE Returned([rule_result EXCEPT
                          !.amount = IF data.obj.amount = None THEN @
                                     ELSE (CHOOSE a \in data.obj.amount : TRUE).value,
                          !.merchant_name = GetOr(data.obj.merchant_name, @),
                          !.category = GetOr(data.obj.category, @),
                          !.sub_category = GetOr(data.obj.sub_category, @)],
                      reply.sent)

_groq_enrich(text, rule_result, cfg, engine_outcome, groq_outcome) ==
    LET reply == generate_json(Format("extract ONLY the merchant name and spending category",
                                      text), cfg, engine_outcome, groq_outcome)
        data == CHOOSE d \in reply.data : TRUE
    IN  IF reply.data = None \/ reply.data = {Json("object", EmptyObject)}
        THEN Returned(rule_result, reply.sent)
        ELSE IF data.kind # "object" THEN Raised("AttributeError", reply.sent)
        ELSE Returned([rule_result EXCEPT
                          !.merchant_name = GetOr(data.obj.merchant_name, @),
                          !.category = GetOr(data.obj.category, @),
                          !.sub_category = GetOr(data.obj.sub_category, @)],
                      reply.sent)

_groq_full_extract(text, cfg, engine_outcome, groq_outcome) ==
    LET reply == generate_json(Format("Extract transaction details", text), cfg,
                               engine_outcome, groq_outcome)
        data == CHOOSE d \in reply.data : TRUE
        amt_raw == data.obj.amount
    IN  IF reply.data = None \/ reply.data = {Json("object", EmptyObject)}
        THEN Returned(_fallback_txn, reply.sent)
        ELSE IF data.kind # "object" THEN Raised("AttributeError", reply.sent)
        ELSE IF amt_raw # None /\ (CHOOSE a \in amt_raw : TRUE).type # "number"
        THEN Raised("ValueError", reply.sent)
        ELSE Returned([amount |-> IF amt_raw = None THEN 0
                                  ELSE (CHOOSE a \in amt_raw : TRUE).value,
                       currency |-> "INR",
                       merchant_name |-> GetOr(data.obj.merchant_name, "UNKNOWN"),
                       category |-> GetOr(data.obj.category, "Uncategorized"),
                       sub_category |-> GetOr(data.obj.sub_category, "Uncategorized"),
                       account_type |-> "SAVINGS",
                       transaction_type |-> "DEBIT",
                       extracted_date |-> None],
                      reply.sent)

call_brain_api_result(text, msg, cfg, engine_outcome, groq_outcome) ==
    LET rule_result == extract(msg)
        rule == CHOOSE r \in rule_result : TRUE
    IN  IF rule_result # None
        THEN IF ~rule._needs_llm_fallback THEN Returned(Candidate(rule), <<>>)
             ELSE IF is_enabled(cfg)
             THEN _groq_enrich(text, Candidate(rule), cfg, engine_outcome, groq_outcome)
             ELSE Returned(Candidate(rule), <<>>)
        ELSE IF is_enabled(cfg)
        THEN _groq_full_extract(text, cfg, engine_outcome, groq_outcome)
        ELSE Returned(_fallback_txn, <<>>)

(***************************************************************************)
(* Calls into the pipeline and into LLMService, one call per behaviour.    *)
(***************************************************************************)
\* SanitizerService.sanitize, applied to the raw body before call_brain_api
sanitize(text) == Text({Redact(piece) : piece \in text.pieces}, TRUE)

NoMessage ==
    [passes_classifier |-> FALSE, amounts |-> <<{}, {}, {}, {}, {}>>, merchant |-> None,
     transaction_type |-> "DEBIT", raw_body |-> {}]

Call(op, msg, max_retries, result, content) ==
    [op |-> op, msg |-> msg, max_retries |-> max_retries, candidate |-> result.candidate,
     raised |-> result.raised, sent |-> result.sent, content |-> content]

\* execute_sync, lines 405-414: sanitize the body and run the pipeline on it
call_brain_api(msg, engine_outcome, groq_outcome) ==
    /\ brain = {}
    /\ brain' = {Call("call_brain_api", msg, 0,
                      call_brain_api_result(sanitize(Text(msg.raw_body, FALSE)), msg, llm,
                                            engine_outcome, groq_outcome),
                      None)}
    /\ UNCHANGED <<llm, syncVars, billVars, recurVars, ledgerVars>>

\* prompts NotificationService builds from the user's name and figures
NotificationPrompts ==
    {Text({"Write a 2-3 sentence 'Optimization Strategy'", "User: Ravi Kumar"}, FALSE)}

\* NotificationService: self.llm.generate_response(prompt) when the service is enabled
notify_generate_response(prompt, engine_outcome, groq_outcome) ==
    /\ brain = {}
    /\ is_enabled(llm)
    /\ LET reply == generate_response(prompt, llm, engine_outcome, groq_outcome)
       IN  brain' = {Call("generate_response", NoMessage, 0,
                          [candidate |-> None, raised |-> None, sent |-> reply.sent],
                          reply.content)}
    /\ UNCHANGED <<llm, syncVars, billVars, recurVars, ledgerVars>>

\* what a request of the retry study ends in
EngineOutcomes ==
    Failures \cup {Response(200, EmptyContent), Response(200, Json("text", EmptyObject))}

\* _call_intelligence_engine for every max_retries up to MaxRetries
call_intelligence_engine(max_retries, outcomes) ==
    /\ brain = {}
    /\ llm.intelligence_url
    /\ LET reply == _call_intelligence_engine(Text({"prompt"}, FALSE), outcomes,
                                              max_retries, 0, <<>>)
       IN  brain' = {Call("_call_intelligence_engine", NoMessage, max_retries,
                          [candidate |-> None, raised |-> None, sent |-> reply.sent],
                          reply.content)}
    /\ UNCHANGED <<llm, syncVars, billVars, recurVars, ledgerVars>>

BrainIdle ==
    /\ llm = [intelligence_url |-> FALSE, groq_api_key |-> FALSE]
    /\ brain = {}

BrainInit ==
    /\ llm \in [intelligence_url : BOOLEAN, groq_api_key : BOOLEAN]
    /\ brain = {}

(***************************************************************************)
(* Strings as Python compares them.                                        *)
(***************************************************************************)
UpperCase == "ABCDEFGHIJKLMNOPQRSTUVWXYZ"
LowerCase == "abcdefghijklmnopqrstuvwxyz"

LowerChar(c) ==
    IF \E i \in 1..Len(UpperCase) : SubSeq(UpperCase, i, i) = c
    THEN LET i == CHOOSE j \in 1..Len(UpperCase) : SubSeq(UpperCase, j, j) = c
         IN  SubSeq(LowerCase, i, i)
    ELSE c

RECURSIVE LowerOf(_)
LowerOf(str) ==
    IF Len(str) = 0 THEN ""
    ELSE LowerChar(SubSeq(str, 1, 1)) \o LowerOf(SubSeq(str, 2, Len(str)))

\* the names that occur in the tables
Names ==
    {"", "Netflix", "NETFLIX", "netflix", "Google", "Google Services", "Cloud", "Storage",
     "Cafe", "Food"}

\* str.lower() of every name, computed once
LowerTable == [str \in Names |-> LowerOf(str)]

\* str.lower()
lower(str) == LowerTable[str]

\* a in b
StrIn(a, b) == \E i \in 1..(Len(b) - Len(a) + 1) : SubSeq(b, i, i + Len(a) - 1) = a

(***************************************************************************)
(* Message text as the patterns of the extractor see it.  A text is a      *)
(* sequence of tokens: words, numbers and punctuation marks, in the        *)
(* spelling of the message.  A pattern is a sequence of elements, each a   *)
(* choice of token runs or a class of tokens, possibly optional; a regular *)
(* expression with \b or \s+ between its parts matches where a run of      *)
(* tokens fits the elements in order.  The rupee sign is not among the     *)
(* tokens of the model.                                                    *)
(***************************************************************************)
Digits == "0123456789"

IsDigit(c) == \E i \in 1..Len(Digits) : SubSeq(Digits, i, i) = c

\* int() of one digit
DigitValue(c) == (CHOOSE i \in 1..Len(Digits) : SubSeq(Digits, i, i) = c) - 1

\* str.replace(",", "")
RECURSIVE WithoutCommas(_)
WithoutCommas(str) ==
    IF Len(str) = 0 THEN ""
    ELSE (IF SubSeq(str, 1, 1) = "," THEN "" ELSE SubSeq(str, 1, 1))
             \o WithoutCommas(SubSeq(str, 2, Len(str)))

\* the value of a run of digits read from the left, acc being what was read
RECURSIVE DigitsValue(_, _)
DigitsValue(str, acc) ==
    IF Len(str) = 0 THEN acc
    ELSE DigitsValue(SubSeq(str, 2, Len(str)), 10 * acc + DigitValue(SubSeq(str, 1, 1)))

\* whether the whole token has the shape [\d,]+\.?\d* with at most two decimals
IsAmountText(tok) ==
    /\ Len(tok) > 0
    /\ \E dot \in 2..(Len(tok) + 1) :
          /\ \A i \in 1..(dot - 1) : IsDigit(SubSeq(tok, i, i)) \/ SubSeq(tok, i, i) = ","
          /\ dot <= Len(tok) => SubSeq(tok, dot, dot) = "."
          /\ \A i \in (dot + 1)..Len(tok) : IsDigit(SubSeq(tok, i, i))
          /\ Len(tok) - dot <= 2

\* float(match.group(1).replace(",", "")) in hundredths; {} when float() raises
ParseAmount(tok) ==
    LET dot == CHOOSE d \in 2..(Len(tok) + 1) :
                   /\ \A i \in 1..(d - 1) : SubSeq(tok, i, i) # "."
                   /\ d <= Len(tok) => SubSeq(tok, d, d) = "."
        whole == WithoutCommas(SubSeq(tok, 1, dot - 1))
        frac == SubSeq(tok, dot + 1, Len(tok))
    IN  IF Len(whole) = 0 THEN {}
        ELSE {100 * DigitsValue(whole, 0)
                 + (IF Len(frac) = 1 THEN 10 * DigitsValue(frac, 0) ELSE DigitsValue(frac, 0))}

\* the tokens of the messages of the model
Tokens ==
    {"Subject", ":", "Your", "OTP", "for", "login", "Transaction", "alert", "Exclusive",
     "offer", "on", "payment", "Special", "update", "Rs.", "1,499.00", "debited", "from",
     "your", "account", "INR", "450", "was", "via", "UPI", "Click", "here", "unsubscribe",
     "opt", "out", "statement", "is", "ready", "Available", "balance", "20,000.00",
     "Amount", "0", "credited", ","}

\* token.lower() of every token, computed once
TokenLower == [tok \in Tokens |-> LowerOf(tok)]

\* per token, computed once: whether ([\d,]+\.?\d*) takes it, and what float() makes of it
AmountTable ==
    [tok \in Tokens |-> [text |-> IsAmountText(tok),
                         value |-> IF IsAmountText(tok) THEN ParseAmount(tok) ELSE {}]]

\* an element of a pattern: runs of lower-case tokens it accepts, a token class, optional or not
Element(runs, class, optional) == [runs |-> runs, class |-> class, optional |-> optional]

Word(words) == Element({<<w>> : w \in words}, "", FALSE)
Maybe(words) == Element({<<w>> : w \in words}, "", TRUE)
Runs(runs) == Element(runs, "", FALSE)
Figure == Element({}, "NUMBER", FALSE)
Class(class) == Element({}, class, FALSE)

\* the lengths of token runs, starting at pos, that element el accepts
Accepted(el, toks, pos) ==
    {Len(fit) : fit \in {x \in el.runs :
                            /\ pos + Len(x) - 1 <= Len(toks)
                            /\ \A k \in 1..Len(x) : TokenLower[toks[pos + k - 1]] = x[k]}}
    \cup (IF el.class = "NUMBER" /\ pos <= Len(toks) /\ AmountTable[toks[pos]].text
          THEN {1} ELSE {})
    \cup (IF el.class = "DIGIT" /\ pos <= Len(toks)
             /\ IsDigit(SubSeq(toks[pos], 1, 1))
          THEN {1} ELSE {})
    \cup (IF el.class = "DIGITS" /\ pos <= Len(toks)
             /\ (IsDigit(SubSeq(toks[pos], 1, 1)) \/ SubSeq(toks[pos], 1, 1) = ",")
          THEN {1} ELSE {})
    \cup (IF el.class = "MASKED" /\ pos <= Len(toks)
             /\ \/ LowerOf(SubSeq(toks[pos], 1, 2)) = "xx"
                \/ /\ Len(toks[pos]) >= 4
                   /\ \A i \in 1..4 : IsDigit(SubSeq(toks[pos], i, i))
          THEN {1} ELSE {})

\* the matches of the elements from index k on at position pos: the set of
\* tokens captured by the NUMBER element ("" when the pattern has none)
RECURSIVE MatchAt(_, _, _, _, _)
MatchAt(pat, k, toks, pos, captured) ==
    IF k > Len(pat) THEN {captured}
    ELSE UNION {MatchAt(pat, k + 1, toks, pos + n,
                        IF pat[k].class = "NUMBER" THEN toks[pos] ELSE captured) :
                    n \in Accepted(pat[k], toks, pos)}
         \cup (IF pat[k].optional THEN MatchAt(pat, k + 1, toks, pos, captured) ELSE {})

\* pattern.search(text): {} or the capture of the leftmost match
Search(pat, toks) ==
    LET hits == {pos \in 1..Len(toks) : MatchAt(pat, 1, toks, pos, "") # {}}
    IN  IF hits = {} THEN {}
        ELSE LET first == CHOOSE pos \in hits : \A q \in hits : pos <= q
             IN  {CHOOSE c \in MatchAt(pat, 1, toks, first, "") : TRUE}

\* sum(1 for p in patterns if p.search(text))
Hits(patterns, toks) == Cardinality({pat \in patterns : Search(pat, toks) # {}})

\* one pattern per word of a list of single-word patterns
Words(words) == {<<Word({w})>> : w \in words}

TRUSTED_SENDERS ==
    {"alerts@axisbank.com", "noreply@axisbank.com", "axisbank@alerts.axisbank.com",
     "alerts@hdfcbank.net", "noreply@hdfcbank.net", "alerts@icicibank.com",
     "noreply@icicibank.com", "donotreply@sbi.co.in", "alerts@sbi.co.in",
     "alerts@kotak.com", "noreply@kotak.com", "alerts@indusind.com", "alerts@yesbank.in",
     "alerts@fedbank.co.in", "alerts@idfcfirstbank.com", "noreply@phonepe.com",
     "alerts@phonepe.com", "noreply@gpay.app", "notifications@google.com",
     "noreply@paytm.com", "noreply@razorpay.com"}

TRUSTED_SENDER_DOMAINS ==
    {"axisbank.com", "hdfcbank.net", "icicibank.com", "sbi.co.in", "kotak.com",
     "indusind.com", "yesbank.in", "fedbank.co.in", "idfcfirstbank.com", "phonepe.com",
     "paytm.com", "razorpay.com", "pnbindia.in", "bankofbaroda.in", "canarabank.com",
     "unionbankofindia.co.in"}

TRANSACTION_SUBJECT_PATTERNS ==
    Words({"debited", "credited", "alert", "spent", "transaction", "payment", "a/c",
           "account", "neft", "imps", "upi", "rtgs", "withdrawn", "purchase", "emv"})

MARKETING_SUBJECT_PATTERNS ==
    Words({"offer", "cashback", "reward", "win", "exclusive", "upgrade", "congratulations",
           "upto", "hurry", "deal", "discount", "free", "bonus", "special"})
    \cup {<<Runs({<<"apply", "now">>})>>}

REQUIRED_BODY_SIGNALS ==
    {<<Word({"debited", "credited", "spent", "paid", "charged", "withdrawn", "transferred"})>>,
     <<Word({"a/c", "acct", "account"}), Maybe({"no", "no.", "number"}), Class("MASKED")>>}

SUPPORTING_BODY_SIGNALS ==
    {<<Word({"upi", "neft", "imps", "rtgs", "nach"})>>,
     <<Word({"transaction", "txn"}), Word({"id", "ref", "no"})>>,
     <<Runs({<<"available", "balance">>})>>,
     <<Runs({<<"if", "not", "done", "by", "you">>})>>,
     <<Word({"inr"}), Class("DIGITS")>>}

MARKETING_BODY_SIGNALS ==
    {<<Runs({<<"click", "here">>})>>,
     <<Word({"limited"}), Word({"time", "period", "offer"})>>,
     <<Word({"term", "terms"}), Word({"and", "&"}), Word({"condition", "conditions"}),
       Word({"apply"})>>,
     <<Runs({<<"opt", "out">>, <<"optout">>})>>,
     <<Word({"unsubscribe"})>>,
     <<Word({"valid"}), Word({"till", "until", "on"}), Class("DIGIT")>>,
     <<Word({"minimum"}), Word({"transaction", "purchase", "spend"})>>,
     <<Runs({<<"each", "transaction">>})>>,
     <<Runs({<<"per", "transaction">>})>>}

\* (?:INR|Rs\.?) in lower case
Currency == {"inr", "rs", "rs."}

\* AMOUNT_PATTERNS in their order; the last one is the bare fallback
AMOUNT_PATTERNS ==
    <<<<Word({"debited", "credited", "spent", "charged", "paid", "withdrawn", "transferred"}),
        Maybe({"of"}), Word(Currency), Figure>>,
      <<Word(Currency), Figure,
        Runs({<<"has", "been">>, <<"was">>, <<"is">>, <<"have", "been">>}),
        Word({"debited", "credited", "spent", "withdrawn"})>>,
      <<Word({"amount", "transaction"}), Word({"of", ":"}), Word(Currency), Figure>>,
      <<Word({"amount"}), Word({":", "-"}), Maybe(Currency), Figure>>,
      <<Word(Currency), Figure>>>>

CREDIT_PATTERNS ==
    <<Word({"credited", "credit", "received", "deposited", "refunded", "reversed"})>>

\* sender.split("@")[-1]
RECURSIVE AfterLastAt(_)
AfterLastAt(str) ==
    IF \E i \in 1..Len(str) : SubSeq(str, i, i) = "@"
    THEN AfterLastAt(SubSeq(str, 1 + (CHOOSE i \in 1..Len(str) : SubSeq(str, i, i) = "@"),
                            Len(str)))
    ELSE str

\* str.strip(">")
RECURSIVE Strip(_)
Strip(str) ==
    IF Len(str) > 0 /\ SubSeq(str, 1, 1) = ">" THEN Strip(SubSeq(str, 2, Len(str)))
    ELSE IF Len(str) > 0 /\ SubSeq(str, Len(str), Len(str)) = ">"
    THEN Strip(SubSeq(str, 1, Len(str) - 1))
    ELSE str

\* the From headers of the model
Senders ==
    {"", "alerts@hdfcbank.net", "HDFC Bank <Alerts@HDFCBank.net>", "notifications@google.com",
     "Google <notifications@google.com>", "deals@shop.example"}

\* sender.split("@")[-1].strip(">").lower() of every sender, computed once
DomainTable == [sender \in Senders |-> LowerOf(Strip(AfterLastAt(sender)))]

sender_domain(sender) == DomainTable[sender]

\* the reply of is_transaction_email
Verdict(is_transaction, reason) == [is_transaction |-> is_transaction, reason |-> reason]

\* the gates in another order: the subject keyword is looked for after the body
is_transaction_email_BodyFirst(subject, body, sender) ==
    IF sender # "" /\ sender_domain(sender) \notin TRUSTED_SENDER_DOMAINS
                   /\ sender \notin TRUSTED_SENDERS
    THEN Verdict(FALSE, "UNTRUSTED_SENDER:" \o sender_domain(sender))
    ELSE IF Hits(MARKETING_SUBJECT_PATTERNS, subject) >= 2
    THEN Verdict(FALSE, "MARKETING_SUBJECT(" \o ToString(Hits(MARKETING_SUBJECT_PATTERNS, subject))
                        \o " signals)")
    ELSE IF Hits(MARKETING_BODY_SIGNALS, body) >= 3
    THEN Verdict(FALSE, "MARKETING_BODY(" \o ToString(Hits(MARKETING_BODY_SIGNALS, body))
                        \o " signals)")
    ELSE IF Hits(REQUIRED_BODY_SIGNALS, body) = 0
    THEN Verdict(FALSE, "NO_REQUIRED_BODY_SIGNAL")
    ELSE IF Hits(SUPPORTING_BODY_SIGNALS, body) = 0
    THEN Verdict(FALSE, "NO_SUPPORTING_BODY_SIGNAL")
    ELSE IF Hits(TRANSACTION_SUBJECT_PATTERNS, subject) = 0
    THEN Verdict(FALSE, "NO_TXN_SUBJECT_KEYWORD")
    ELSE Verdict(TRUE, "PASSED_ALL_LAYERS")

is_transaction_email(subject, body, sender) ==
    IF sender # "" /\ sender_domain(sender) \notin TRUSTED_SENDER_DOMAINS
                   /\ sender \notin TRUSTED_SENDERS
    THEN Verdict(FALSE, "UNTRUSTED_SENDER:" \o sender_domain(sender))
    ELSE IF Hits(MARKETING_SUBJECT_PATTERNS, subject) >= 2
    THEN Verdict(FALSE, "MARKETING_SUBJECT(" \o ToString(Hits(MARKETING_SUBJECT_PATTERNS, subject))
                        \o " signals)")
    ELSE IF Hits(TRANSACTION_SUBJECT_PATTERNS, subject) = 0
    THEN Verdict(FALSE, "NO_TXN_SUBJECT_KEYWORD")
    ELSE IF Hits(MARKETING_BODY_SIGNALS, body) >= 3
    THEN Verdict(FALSE, "MARKETING_BODY(" \o ToString(Hits(MARKETING_BODY_SIGNALS, body))
                        \o " signals)")
    ELSE IF Hits(REQUIRED_BODY_SIGNALS, body) = 0
    THEN Verdict(FALSE, "NO_REQUIRED_BODY_SIGNAL")
    ELSE IF Hits(SUPPORTING_BODY_SIGNALS, body) = 0
    THEN Verdict(FALSE, "NO_SUPPORTING_BODY_SIGNAL")
    ELSE Verdict(TRUE, "PASSED_ALL_LAYERS")

\* per amount pattern, in order: no match ({}) or float() of the number matched
amount_matches(text) ==
    [i \in 1..NumAmountPatterns |->
        LET found == Search(AMOUNT_PATTERNS[i], text)
        IN  IF found = {} THEN {} ELSE AmountTable[CHOOSE tok \in found : TRUE].value]

detect_transaction_type(text) ==
    IF Search(CREDIT_PATTERNS, text) # {} THEN "CREDIT" ELSE "DEBIT"

\* the subjects and bodies of the model, as token sequences
Subjects ==
    {<<"Your", "OTP", "for", "login">>,
     <<"Transaction", "alert">>,
     <<"Exclusive", "offer", "on", "payment">>,
     <<"Special", "payment", "update">>}

Bodies ==
    {<<"Rs.", "1,499.00", "debited", "from", "your", "account">>,
     <<"INR", "450", "was", "debited", "via", "UPI">>,
     <<"Click", "here", "unsubscribe", "opt", "out", "INR", "450", "debited", "UPI">>,
     <<"Your", "statement", "is", "ready">>,
     <<"Rs.", "1,499.00", "debited", "from", "your", "account", "Available", "balance",
       "INR", "20,000.00">>,
     <<"Amount", ":", "0", "INR", "450", "credited", "via", "UPI">>,
     <<"Amount", ":", "0", "Rs.", ",", "INR", "450", "debited", "UPI">>}

Emails == [sender : Senders, subject : Subjects, body : Bodies]

\* f"Subject: {subject}\n{body}"
full_text(email) == <<"Subject", ":">> \o email.subject \o email.body

\* an email as extract sees it
Seen(email) ==
    [passes_classifier |->
         is_transaction_email(email.subject, email.body, email.sender).is_transaction,
     amounts |-> amount_matches(full_text(email)),
     merchant |-> None,
     transaction_type |-> detect_transaction_type(full_text(email)),
     raw_body |-> {email.body[i] : i \in DOMAIN email.body},
     email |-> email,
     reason |-> is_transaction_email(email.subject, email.body, email.sender).reason]

\* every email with its Seen, computed once
SeenPairs == {<<email, Seen(email)>> : email \in Emails}

SeenOf(email) == (CHOOSE p \in SeenPairs : p[1] = email)[2]

\* the extractor applied to a text on its own
read_text(text) ==
    /\ brain = {}
    /\ brain' = {[op |-> "extract_amount", text |-> text,
                  found |-> extract_amount(amount_matches(text)),
                  transaction_type |-> detect_transaction_type(text)]}
    /\ UNCHANGED <<llm, syncVars, billVars, recurVars, ledgerVars>>

Abs(x) == IF x < 0 THEN -x ELSE x

(***************************************************************************)
(* The obligations ledger: get_obligations_ledger over the Bill,           *)
(* BillExclusion and Transaction tables.  A transaction's id is its        *)
(* position in the table; merchant_name "" stands for a missing name.      *)
(***************************************************************************)
\* names of the SubCategory rows with is_surety set
SuretySubCategories == {"Netflix", "Cloud"}

\* the calendar month of d
get_month_date_range(d) ==
    [month_start |-> date(d.year, d.month, 1),
     month_end |-> date(d.year, d.month, monthrange(d.year, d.month))]

\* the calendar month before the month of d
get_previous_month_date_range(d) ==
    LET y == IF d.month = 1 THEN d.year - 1 ELSE d.year
        m == IF d.month = 1 THEN 12 ELSE d.month - 1
    IN  [month_start |-> date(y, m, 1), month_end |-> date(y, m, monthrange(y, m))]

\* ids of the rows of a table, in query order
Ids(tbl) == [i \in 1..Len(tbl) |-> i]

\* past_stmt / curr_stmt followed by the surety filter
SuretyIn(txns, range) ==
    LET surety_subs == {lower(name) : name \in SuretySubCategories}
    IN  SelectSeq(Ids(txns), LAMBDA i :
            /\ DateLe(range.month_start, txns[i].transaction_date)
            /\ DateLe(txns[i].transaction_date, range.month_end)
            /\ (txns[i].is_surety \/ lower(txns[i].sub_category) \in surety_subs))

past_txns(txns, tday) == SuretyIn(txns, get_previous_month_date_range(tday))
curr_txns(txns, tday) == SuretyIn(txns, get_month_date_range(tday))

skipped_source_ids(excl) ==
    UNION {e.source_transaction_id : e \in {x \in excl : x.exclusion_type = "SKIP"}}

manual_paid_ids(excl) ==
    UNION {e.source_transaction_id : e \in {x \in excl : x.exclusion_type = "MANUAL_PAID"}}

\* pairs of optional lower-cased patterns
permanent_patterns(excl) ==
    {<<{lower(m) : m \in e.merchant_pattern}, {lower(sc) : sc \in e.subcategory_pattern}>> :
        e \in {x \in excl : x.exclusion_type = "PERMANENT"}}

EmptyLedger ==
    [items |-> <<>>, unpaid_total |-> 0, projected_total |-> 0,
     covered_signatures |-> {}, matched_curr_ids |-> {}]

\* 1. the unpaid bills
RECURSIVE ledger_unpaid_bills(_, _, _, _)
ledger_unpaid_bills(acc, bs, ids, tday) ==
    IF ids = <<>> THEN acc
    ELSE LET bill == bs[Head(ids)]
             item == [id |-> <<"bill", Head(ids)>>,
                      amount |-> bill.amount,
                      due_date |-> bill.due_date,
                      type |-> "BILL",
                      status |-> IF DateLt(bill.due_date, tday) THEN "OVERDUE" ELSE "PENDING",
                      sub_category |-> bill.sub_category,
                      source_id |-> None]
             next == [acc EXCEPT
                        !.items = Append(@, item),
                        !.unpaid_total = @ + bill.amount,
                        !.covered_signatures =
                            IF bill.is_recurring
                            THEN @ \cup {<<lower(bill.sub_category), bill.amount>>}
                            ELSE @]
         IN  ledger_unpaid_bills(next, bs, Tail(ids), tday)

\* a projection pass that projects whenever the next occurrence is in the window
RECURSIVE ledger_recurring_bills_Always(_, _, _, _, _)
ledger_recurring_bills_Always(acc, bs, ids, tday, threshold_date) ==
    IF ids = <<>> THEN acc
    ELSE LET bill == bs[Head(ids)]
             r_day == IF bill.recurrence_day # 0 THEN bill.recurrence_day
                      ELSE bill.due_date.day
             next_due == _calculate_next_recurrence(r_day, tday)
             item == [id |-> <<"proj", Head(ids)>>,
                      amount |-> bill.amount,
                      due_date |-> next_due,
                      type |-> "BILL",
                      status |-> "PROJECTED",
                      sub_category |-> bill.sub_category,
                      source_id |-> None]
             next == IF DateLe(tday, next_due) /\ DateLe(next_due, threshold_date)
                     THEN [acc EXCEPT
                             !.items = Append(@, item),
                             !.projected_total = @ + bill.amount,
                             !.covered_signatures =
                                 @ \cup {<<lower(bill.sub_category), bill.amount>>}]
                     ELSE acc
         IN  ledger_recurring_bills_Always(next, bs, Tail(ids), tday, threshold_date)

\* 2. the next instance of each recurring bill
RECURSIVE ledger_recurring_bills(_, _, _, _, _)
ledger_recurring_bills(acc, bs, ids, tday, threshold_date) ==
    IF ids = <<>> THEN acc
    ELSE LET bill == bs[Head(ids)]
             r_day == IF bill.recurrence_day # 0 THEN bill.recurrence_day
                      ELSE bill.due_date.day
             next_due == _calculate_next_recurrence(r_day, tday)
             item == [id |-> <<"proj", Head(ids)>>,
                      amount |-> bill.amount,
                      due_date |-> next_due,
                      type |-> "BILL",
                      status |-> "PROJECTED",
                      sub_category |-> bill.sub_category,
                      source_id |-> None]
             next == IF /\ DateLe(tday, next_due) /\ DateLe(next_due, threshold_date)
                        /\ (DateLt(bill.due_date, next_due) \/ bill.is_paid)
                     THEN [acc EXCEPT
                             !.items = Append(@, item),
                             !.projected_total = @ + bill.amount,
                             !.covered_signatures =
                                 @ \cup {<<lower(bill.sub_category), bill.amount>>}]
                     ELSE acc
         IN  ledger_recurring_bills(next, bs, Tail(ids), tday, threshold_date)

\* the label of the exclusion that applies to p_txn, "" when none does
exclusion_reason(p_id, p_txn, excl, covered_signatures) ==
    LET skip == IF p_id \in skipped_source_ids(excl) THEN "SKIPPED" ELSE ""
        paid == IF p_id \in manual_paid_ids(excl) THEN "PAID" ELSE skip
        p_m == lower(p_txn.merchant_name)
        p_s == lower(p_txn.sub_category)
        perm == IF paid = "" /\ \E pat \in permanent_patterns(excl) :
                                    /\ \A emp \in pat[1] : emp = p_m
                                    /\ \A esp \in pat[2] : esp = p_s
                THEN "TERMINATED" ELSE paid
    IN  IF perm = "" /\ <<lower(p_txn.sub_category), p_txn.amount>> \in covered_signatures
        THEN "COVERED" ELSE perm

\* whether c_txn is accepted as the current-period partner of p_txn
is_partner(p_txn, c_txn) ==
    LET p_m == lower(p_txn.merchant_name)
        c_m == lower(c_txn.merchant_name)
    IN  /\ Abs(p_txn.amount) = Abs(c_txn.amount)
        /\ \/ p_m = c_m
           \/ lower(p_txn.sub_category) = lower(c_txn.sub_category)
           \/ p_m # "" /\ c_m # "" /\ (StrIn(p_m, c_m) \/ StrIn(c_m, p_m))

\* a partner search that does not look at what is already matched
RECURSIVE find_partner_AnyClaimed(_, _, _, _)
find_partner_AnyClaimed(p_txn, txns, c_ids, matched) ==
    IF c_ids = <<>> THEN None
    ELSE IF is_partner(p_txn, txns[Head(c_ids)])
         THEN {Head(c_ids)}
         ELSE find_partner_AnyClaimed(p_txn, txns, Tail(c_ids), matched)

\* the first current-period transaction not yet matched that is a partner
RECURSIVE find_partner(_, _, _, _)
find_partner(p_txn, txns, c_ids, matched) ==
    IF c_ids = <<>> THEN None
    ELSE IF Head(c_ids) \notin matched /\ is_partner(p_txn, txns[Head(c_ids)])
         THEN {Head(c_ids)}
         ELSE find_partner(p_txn, txns, Tail(c_ids), matched)

\* a surety step that counts an excluded row by its date when it is shown
ledger_surety_txn_CountsHidden(acc, txns, p_id, c_ids, excl, tday, threshold_date, include_hidden) ==
    LET p_txn == txns[p_id]
        reason == exclusion_reason(p_id, p_txn, excl, acc.covered_signatures)
        month_end == get_month_date_range(tday).month_end
        p_date == date(tday.year, tday.month, Min(p_txn.transaction_date.day, month_end.day))
        partner == find_partner(p_txn, txns, c_ids, acc.matched_curr_ids)
        date_status == IF DateLt(p_date, tday) THEN "OVERDUE" ELSE "PROJECTED"
        item == [id |-> <<"auto", p_id>>,
                 amount |-> Abs(p_txn.amount),
                 due_date |-> p_date,
                 type |-> "SURETY_TXN",
                 status |-> IF partner # None THEN "PAID"
                            ELSE IF reason # "" THEN reason ELSE date_status,
                 sub_category |-> p_txn.sub_category,
                 source_id |-> {p_id}]
    IN  IF partner # None
        THEN [acc EXCEPT !.matched_curr_ids = @ \cup partner,
                         !.items = IF include_hidden THEN Append(@, item) ELSE @]
        ELSE IF reason # "" /\ ~include_hidden
        THEN acc
        ELSE IF \/ DateLe(tday, p_date) /\ DateLe(p_date, threshold_date)
                \/ reason # "" \/ date_status = "OVERDUE"
        THEN [acc EXCEPT
                !.items = Append(@, item),
                !.projected_total = IF date_status = "PROJECTED"
                                    THEN @ + Abs(p_txn.amount) ELSE @,
                !.unpaid_total = IF date_status = "OVERDUE"
                                 THEN @ + Abs(p_txn.amount) ELSE @]
        ELSE acc

\* a surety step whose date filter lets every unmatched, unexcluded row through
ledger_surety_txn_NoHorizon(acc, txns, p_id, c_ids, excl, tday, threshold_date, include_hidden) ==
    LET p_txn == txns[p_id]
        reason == exclusion_reason(p_id, p_txn, excl, acc.covered_signatures)
        month_end == get_month_date_range(tday).month_end
        p_date == date(tday.year, tday.month, Min(p_txn.transaction_date.day, month_end.day))
        partner == find_partner(p_txn, txns, c_ids, acc.matched_curr_ids)
        final_status == IF reason # "" THEN reason
                        ELSE IF DateLt(p_date, tday) THEN "OVERDUE" ELSE "PROJECTED"
        item == [id |-> <<"auto", p_id>>,
                 amount |-> Abs(p_txn.amount),
                 due_date |-> p_date,
                 type |-> "SURETY_TXN",
                 status |-> IF partner # None THEN "PAID" ELSE final_status,
                 sub_category |-> p_txn.sub_category,
                 source_id |-> {p_id}]
    IN  IF partner # None
        THEN [acc EXCEPT !.matched_curr_ids = @ \cup partner,
                         !.items = IF include_hidden THEN Append(@, item) ELSE @]
        ELSE IF reason # "" /\ ~include_hidden
        THEN acc
        ELSE [acc EXCEPT
                !.items = Append(@, item),
                !.projected_total = IF final_status = "PROJECTED"
                                    THEN @ + Abs(p_txn.amount) ELSE @,
                !.unpaid_total = IF final_status = "OVERDUE"
                                 THEN @ + Abs(p_txn.amount) ELSE @]

\* 3. one previous-period surety transaction
ledger_surety_txn(acc, txns, p_id, c_ids, excl, tday, threshold_date, include_hidden) ==
    LET p_txn == txns[p_id]
        reason == exclusion_reason(p_id, p_txn, excl, acc.covered_signatures)
        is_excluded == reason # ""
        month_end == get_month_date_range(tday).month_end
        p_date == date(tday.year, tday.month, Min(p_txn.transaction_date.day, month_end.day))
        partner == find_partner(p_txn, txns, c_ids, acc.matched_curr_ids)
        final_status == IF is_excluded THEN reason
                        ELSE IF DateLt(p_date, tday) THEN "OVERDUE" ELSE "PROJECTED"
        item == [id |-> <<"auto", p_id>>,
                 amount |-> Abs(p_txn.amount),
                 due_date |-> p_date,
                 type |-> "SURETY_TXN",
                 status |-> IF partner # None THEN "PAID" ELSE final_status,
                 sub_category |-> p_txn.sub_category,
                 source_id |-> {p_id}]
    IN  IF partner # None
        THEN [acc EXCEPT !.matched_curr_ids = @ \cup partner,
                         !.items = IF include_hidden THEN Append(@, item) ELSE @]
        ELSE IF is_excluded /\ ~include_hidden
        THEN acc
        ELSE IF /\ \/ DateLe(tday, p_date) /\ DateLe(p_date, threshold_date)
                   \/ final_status \in {"OVERDUE", "SKIPPED", "TERMINATED", "COVERED", "PAID"}
                /\ (include_hidden \/ ~is_excluded)
        THEN [acc EXCEPT
                !.items = Append(@, item),
                !.projected_total = IF final_status = "PROJECTED"
                                    THEN @ + Abs(p_txn.amount) ELSE @,
                !.unpaid_total = IF final_status = "OVERDUE"
                                 THEN @ + Abs(p_txn.amount) ELSE @]
        ELSE acc

RECURSIVE ledger_surety(_, _, _, _, _, _, _, _)
ledger_surety(acc, txns, p_ids, c_ids, excl, tday, threshold_date, include_hidden) ==
    IF p_ids = <<>> THEN acc
    ELSE ledger_surety(
             ledger_surety_txn(acc, txns, Head(p_ids), c_ids, excl, tday, threshold_date,
                               include_hidden),
             txns, Tail(p_ids), c_ids, excl, tday, threshold_date, include_hidden)

\* the response of get_obligations_ledger, with the arguments of the call
obligations_ledger(bs, txns, excl, tday, days_ahead, include_hidden) ==
    LET threshold_date == AddDays(tday, days_ahead)
        unpaid_bills == SelectSeq(Ids(bs), LAMBDA i : bs[i].is_paid = FALSE)
        recurring_bills == SelectSeq(Ids(bs), LAMBDA i : bs[i].is_recurring = TRUE)
        s1 == ledger_unpaid_bills(EmptyLedger, bs, unpaid_bills, tday)
        s2 == ledger_recurring_bills(s1, bs, recurring_bills, tday, threshold_date)
        s3 == ledger_surety(s2, txns, past_txns(txns, tday), curr_txns(txns, tday), excl,
                            tday, threshold_date, include_hidden)
    IN  [days_ahead |-> days_ahead,
         include_hidden |-> include_hidden,
         unpaid_total |-> s3.unpaid_total,
         projected_total |-> s3.projected_total,
         items |-> s3.items]

\* horizons asked for
DaysAhead == {7, 30}

\* SuretyExclusionCreate payloads
ExclusionCreates ==
    {[exclusion_type |-> "SKIP", source_transaction_id |-> {1},
      merchant_pattern |-> None, subcategory_pattern |-> None],
     [exclusion_type |-> "MANUAL_PAID", source_transaction_id |-> {1},
      merchant_pattern |-> None, subcategory_pattern |-> None],
     [exclusion_type |-> "PERMANENT", source_transaction_id |-> None,
      merchant_pattern |-> {"Netflix"}, subcategory_pattern |-> None]}

create_surety_exclusion(data) ==
    /\ data \notin exclusions
    /\ exclusions' = exclusions \cup {data}
    /\ ledger' = {}
    /\ UNCHANGED <<syncVars, billVars, recurVars, brainVars>>

get_obligations_ledger(days_ahead, include_hidden) ==
    /\ ledger' = {obligations_ledger(bills, transactions, exclusions, today, days_ahead,
                                     include_hidden)}
    /\ UNCHANGED <<exclusions, syncVars, billVars, recurVars, brainVars>>

\* the days the ledger is asked for
LedgerDays == {date(2024, 2, 10), date(2024, 2, 25)}

\* BillCreate payloads of the ledger scenarios
LedgerBillCreates ==
    [amount : {499}, sub_category : {"Netflix"},
     due_date : {date(2024, 2, 5), date(2024, 2, 15)},
     is_recurring : BOOLEAN, recurrence_day : {0}]

\* the stored amount of a synced payment of the given magnitude
DebitAmount(magnitude) ==
    final_amount([amount |-> magnitude, transaction_type |-> "DEBIT"], "Entertainment")

\* Transaction rows of the previous and the current month
LedgerTxnRows ==
    {[transaction_date |-> date(2024, 1, 5), amount |-> DebitAmount(499),
      merchant_name |-> "NETFLIX", sub_category |-> "Netflix", is_surety |-> TRUE],
     [transaction_date |-> date(2024, 1, 5), amount |-> 499,
      merchant_name |-> "Netflix", sub_category |-> "netflix", is_surety |-> TRUE],
     [transaction_date |-> date(2024, 1, 31), amount |-> DebitAmount(120),
      merchant_name |-> "Google", sub_category |-> "Cloud", is_surety |-> FALSE],
     [transaction_date |-> date(2024, 2, 3), amount |-> DebitAmount(499),
      merchant_name |-> "Netflix", sub_category |-> "Netflix", is_surety |-> TRUE],
     [transaction_date |-> date(2024, 2, 1), amount |-> DebitAmount(120),
      merchant_name |-> "Google Services", sub_category |-> "Storage", is_surety |-> TRUE],
     [transaction_date |-> date(2024, 1, 12), amount |-> DebitAmount(80),
      merchant_name |-> "Cafe", sub_category |-> "Food", is_surety |-> FALSE]}

LedgerTables == UNION {[1..n -> LedgerTxnRows] : n \in 0..MaxTxns}

LedgerIdle ==
    /\ exclusions = {}
    /\ ledger = {}

LedgerInit ==
    /\ now = 0
    /\ mailbox = {}
    /\ gmail_credentials = TRUE
    /\ notifications = 0
    /\ logs = <<>>
    /\ transactions \in LedgerTables
    /\ run = [r \in Procs |-> IdleRun]
    /\ today \in LedgerDays
    /\ bills = <<>>
    /\ last_mark_paid = {}
    /\ LedgerIdle

(***************************************************************************)
(* Actions of the sync orchestrator.                                       *)
(***************************************************************************)
Tick ==
    /\ now < MaxTime
    /\ now' = now + 1
    /\ UNCHANGED <<mailbox, gmail_credentials, notifications, logs, transactions, run>>
    /\ UNCHANGED <<billVars, recurVars, ledgerVars, brainVars>>

Arrive(id) ==
    /\ \A m \in mailbox : m.id # id
    /\ mailbox' = mailbox \cup {[id |-> id, internalDate |-> now]}
    /\ UNCHANGED <<now, gmail_credentials, notifications, logs, transactions, run>>
    /\ UNCHANGED <<billVars, recurVars, ledgerVars, brainVars>>

\* the tables and worker r's locals after a stretch
Becomes(r, s) ==
    /\ logs' = s.w.logs
    /\ transactions' = s.w.transactions
    /\ notifications' = s.w.notifications
    /\ gmail_credentials' = s.w.gmail_credentials
    /\ run' = [run EXCEPT ![r] = s.l]
    /\ UNCHANGED <<now, mailbox, billVars, recurVars, ledgerVars, brainVars>>

FetchOutcomes == {"OK", "REFRESH_FAILED", "INVALID_GRANT", "ERROR"}

\* one whole execute_sync call, with no other run in progress
execute_sync(r) ==
    /\ \A q \in Procs : run[q].pc \in {"idle", "done"}
    /\ Len(logs) < MaxRuns
    /\ LET s0 == sync_log_start(World, now)
       IN  \/ \E outcome \in FetchOutcomes \ {"OK"} :
                Becomes(r, sync_fetch(s0.w, s0.l, mailbox, outcome))
           \/ LET s1 == sync_fetch(s0.w, s0.l, mailbox, "OK")
              IN  \E choices \in [DOMAIN s1.l.messages -> Choices] :
                     Becomes(r, sync_loop(s1.w, s1.l, choices))

\* the same call in steps, so that runs of different workers interleave
StartRun(r) ==
    /\ run[r].pc \in {"idle", "done"}
    /\ Len(logs) < MaxRuns
    /\ Becomes(r, sync_log_start(World, now))

FetchRun(r) ==
    /\ run[r].pc = "fetch"
    /\ \E outcome \in FetchOutcomes : Becomes(r, sync_fetch(World, run[r], mailbox, outcome))

StepRun(r) ==
    /\ run[r].pc \in {"dedup", "brain", "persist"}
    /\ \E c \in Choices : Becomes(r, sync_step(World, run[r], c))

\* a step of the loop on a message with any direction, sign and mapping
StepSigned(r) ==
    /\ run[r].pc \in {"dedup", "brain", "persist"}
    /\ \E c \in SignChoices : Becomes(r, sync_step(World, run[r], c))

(***************************************************************************)
(* Specifications of the sync orchestrator.                                *)
(***************************************************************************)
SyncInit ==
    /\ now = 0
    /\ mailbox = {}
    /\ gmail_credentials = TRUE
    /\ notifications = 0
    /\ logs = <<>>
    /\ transactions = <<>>
    /\ run = [r \in Procs |-> IdleRun]

Init == SyncInit /\ BillsIdle /\ RecurIdle /\ LedgerIdle /\ BrainIdle

\* runs one after another
Next ==
    \/ Tick
    \/ \E id \in MsgIds : Arrive(id)
    \/ execute_sync(1)

Spec == Init /\ [][Next]_vars

\* two workers whose runs may overlap, started while the mail is already there
\* (a manual sync requested during the scheduled one)
ConcInit ==
    /\ now = 0
    /\ \E ids \in SUBSET MsgIds : mailbox = {[id |-> i, internalDate |-> 0] : i \in ids}
    /\ gmail_credentials = TRUE
    /\ notifications = 0
    /\ logs = <<>>
    /\ transactions = <<>>
    /\ run = [r \in Procs |-> IdleRun]
    /\ BillsIdle
    /\ RecurIdle
    /\ LedgerIdle
    /\ BrainIdle

NextConc ==
    \/ \E r \in Procs : StartRun(r)
    \/ \E r \in Procs : FetchRun(r)
    \/ \E r \in Procs : StepRun(r)

SpecConc == ConcInit /\ [][NextConc]_vars

\* one worker, in steps, over messages of every direction, sign and mapping
NextSigned ==
    \/ StartRun(1)
    \/ FetchRun(1)
    \/ StepSigned(1)

SpecSigned == ConcInit /\ [][NextSigned]_vars

(***************************************************************************)
(* Specifications of the bill lifecycle and of the recurrence function.    *)
(***************************************************************************)
InitBills == SyncInit /\ BillsInit /\ RecurIdle /\ LedgerIdle /\ BrainIdle

NextBills ==
    \/ NextDay
    \/ \E data \in BillCreates : create_bill(data)
    \/ \E paid \in BOOLEAN : mark_paid(1, paid)

SpecBills == InitBills /\ [][NextBills]_vars

InitRecur == SyncInit /\ BillsIdle /\ RecurInit /\ LedgerIdle /\ BrainIdle

NextRecur == calculate_next_recurrence

SpecRecur == InitRecur /\ [][NextRecur]_vars

(***************************************************************************)
(* Specification of the obligations ledger.                                *)
(***************************************************************************)
InitLedger == LedgerInit /\ RecurIdle /\ BrainIdle

NextLedger ==
    \/ \E data \in LedgerBillCreates : create_bill(data)
    \/ \E paid \in BOOLEAN : mark_paid(1, paid)
    \/ \E data \in ExclusionCreates : create_surety_exclusion(data)
    \/ \E days_ahead \in DaysAhead, include_hidden \in BOOLEAN :
           get_obligations_ledger(days_ahead, include_hidden)

SpecLedger == InitLedger /\ [][NextLedger]_vars

(***************************************************************************)
(* Specification of bill editing: one bill created, updated, paid, and the *)
(* ledger read, with no transactions.                                      *)
(***************************************************************************)
\* BillCreate payloads of the editing scenarios
EditBillCreates ==
    [amount : {499, -200}, sub_category : {"Netflix"},
     due_date : {date(2024, 2, 5), date(2024, 2, 15)},
     is_recurring : BOOLEAN, recurrence_day : {0, 5}]

InitEdit ==
    /\ SyncInit
    /\ today = date(2024, 2, 10)
    /\ bills = <<>>
    /\ last_mark_paid = {}
    /\ LedgerIdle /\ RecurIdle /\ BrainIdle

NextEdit ==
    \/ \E data \in EditBillCreates : create_bill(data)
    \/ \E data \in BillUpdates : update_bill(1, data)
    \/ \E paid \in BOOLEAN : mark_paid(1, paid)
    \/ \E days_ahead \in DaysAhead, include_hidden \in BOOLEAN :
           get_obligations_ledger(days_ahead, include_hidden)

SpecEdit == InitEdit /\ [][NextEdit]_vars

(***************************************************************************)
(* Specification of the surety matching: a table with several previous-    *)
(* and current-period transactions, one recurring bill, exclusions.        *)
(***************************************************************************)
\* the surety-eligible rows of January and February
MatchTxnRows ==
    {row \in LedgerTxnRows : row.is_surety \/ lower(row.sub_category) \in
                                                {lower(sc) : sc \in SuretySubCategories}}

\* the recurring bills
MatchBillCreates == {data \in LedgerBillCreates : data.is_recurring}

InitMatch ==
    /\ now = 0
    /\ mailbox = {}
    /\ gmail_credentials = TRUE
    /\ notifications = 0
    /\ logs = <<>>
    /\ transactions \in [1..MatchTxns -> MatchTxnRows]
    /\ run = [r \in Procs |-> IdleRun]
    /\ today = date(2024, 2, 10)
    /\ bills = <<>>
    /\ last_mark_paid = {}
    /\ LedgerIdle /\ RecurIdle /\ BrainIdle

NextMatch ==
    \/ \E data \in MatchBillCreates : create_bill(data)
    \/ \E data \in ExclusionCreates : create_surety_exclusion(data)
    \/ \E days_ahead \in DaysAhead, include_hidden \in BOOLEAN :
           get_obligations_ledger(days_ahead, include_hidden)

SpecMatch == InitMatch /\ [][NextMatch]_vars

(***************************************************************************)
(* Specification of the extraction pipeline and of LLMService.             *)
(***************************************************************************)
InitBrain == SyncInit /\ BillsIdle /\ RecurIdle /\ LedgerIdle /\ BrainInit

NextBrain ==
    \/ \E msg \in BrainMessages, engine_outcome \in HttpOutcomes, groq_outcome \in HttpOutcomes :
           call_brain_api(msg, engine_outcome, groq_outcome)
    \/ \E prompt \in NotificationPrompts, engine_outcome \in HttpOutcomes,
           groq_outcome \in HttpOutcomes :
           notify_generate_response(prompt, engine_outcome, groq_outcome)
    \/ \E max_retries \in 0..MaxRetries :
           \E outcomes \in [1..(max_retries + 1) -> EngineOutcomes] :
               call_intelligence_engine(max_retries, outcomes)

SpecBrain == InitBrain /\ [][NextBrain]_vars

(***************************************************************************)
(* Specification of the classifier and the amount patterns over emails.    *)
(***************************************************************************)
InitExtract == SyncInit /\ BillsIdle /\ RecurIdle /\ LedgerIdle /\ BrainInit

\* what a request of the email study ends in
EmailOutcomes ==
    {Timeout, Response(503, EmptyContent), Response(200, EmptyContent)}
        \cup {Response(200, Json("object", obj)) : obj \in AIObjects}

NextExtract ==
    \/ \E email \in Emails, engine_outcome \in EmailOutcomes, groq_outcome \in EmailOutcomes :
           call_brain_api(SeenOf(email), engine_outcome, groq_outcome)
    \/ \E text \in Bodies \cup {full_text(email) : email \in Emails} :
           read_text(text)

SpecExtract == InitExtract /\ [][NextExtract]_vars

(***************************************************************************)
(* Properties of the sync orchestrator.                                    *)
(***************************************************************************)
Fingerprints == {transactions[i].raw_content_hash : i \in DOMAIN transactions}

UniqueFingerprints ==
    \A i, j \in DOMAIN transactions :
        transactions[i].raw_content_hash = transactions[j].raw_content_hash => i = j

\* the messages of worker r's batch that its loop reached
Reached(r) ==
    IF run[r].raisedAt # 0 THEN 1..run[r].raisedAt
    ELSE IF run[r].idx > Len(run[r].messages) THEN DOMAIN run[r].messages
    ELSE 1..run[r].idx

\* C1: over runs made one after another the store never holds two
\* transactions with one fingerprint, and a run leaves every stored record as
\* it was, counts each reached message whose fingerprint was already stored
\* as dedup-skipped and calls the extraction pipeline for none of them.
C1_DedupSequential ==
    /\ []UniqueFingerprints
    /\ [][Len(logs') > Len(logs) =>
             LET l == run'[1]
                 seen == {k \in Reached(1)' :
                             content_hash(l.messages[k]) \in Fingerprints}
             IN  /\ \A i \in DOMAIN transactions : transactions'[i] = transactions[i]
                 /\ l.dedup_skipped = Cardinality(seen)
                 /\ l.brain_calls = Cardinality(Reached(1)' \ seen)]_vars

\* C1 witness: a run that met an already stored message and skipped it
C1_Witness ==
    /\ run[1].pc = "done"
    /\ run[1].dedup_skipped > 0
    /\ \E k \in DOMAIN run[1].messages :
           content_hash(run[1].messages[k]) \in Fingerprints

\* C2: when one message of a batch raises (not a credential failure), the
\* later messages are still processed and the run does not end FAILED.
C2_PerMessageIsolation ==
    \A r \in Procs :
        (run[r].pc = "done" /\ run[r].raisedAt # 0
                             /\ run[r].raisedAt < Len(run[r].messages)) =>
            /\ logs[run[r].log].status # "FAILED"
            /\ run[r].idx > Len(run[r].messages)

\* the bound the claim expects for the run logged in row k: the start time of
\* the latest earlier run that is SUCCESS with records, minus one hour
ExpectedAfter(k) ==
    LET good == {i \in 1..(k - 1) : /\ logs[i].status = "SUCCESS"
                                    /\ logs[i].records_processed > 0}
    IN  IF good = {} THEN {}
        ELSE {logs[CHOOSE i \in good : \A j \in good : j <= i].start_time - 1}

\* C3: the 'after' bound of a run is the start time of the most recent earlier
\* run that is SUCCESS with records_processed > 0, minus one hour, absent when
\* there is none; a run that ends FAILED or with zero records leaves the bound
\* of later runs as it was.
C3_Watermark ==
    /\ [](run[1].pc = "done" => run[1].after = ExpectedAfter(run[1].log))
    /\ [][(/\ Len(logs') > Len(logs)
           /\ \/ logs'[Len(logs')].status = "FAILED"
              \/ logs'[Len(logs')].records_processed = 0)
          => _get_last_sync_time(logs') = _get_last_sync_time(logs)]_vars

\* C3 witness: a third run whose bound comes from the first run although a
\* later run ended FAILED or empty in between
C3_Witness ==
    /\ run[1].pc = "done"
    /\ run[1].log = 3
    /\ logs[1].status = "SUCCESS" /\ logs[1].records_processed > 0
    /\ logs[2].records_processed = 0
    /\ logs[2].start_time > logs[1].start_time
    /\ run[1].after = {logs[1].start_time - 1}

\* C4: overlapping runs that fetched the same message leave at most one
\* transaction with its fingerprint, in every interleaving.
C4_DedupConcurrent == UniqueFingerprints

\* C4 witness: both workers passed the lookup for one message, one created
\* the record and the other's create was refused
C4_Witness ==
    \E r, q \in Procs :
        /\ r # q
        /\ run[r].pc = "done" /\ run[r].raisedAt # 0
        /\ logs[run[r].log].error_message = "IntegrityError"
        /\ content_hash(run[r].messages[run[r].raisedAt]) \in Fingerprints
        /\ run[q].brain_calls > 0

\* C5: a message a run fetched but did not persist is still inside the query
\* window (watermark minus one hour) of the next run.
C5_SkippedStaysInWindow ==
    run[1].pc = "done" =>
        \A k \in DOMAIN run[1].messages :
            LET m == run[1].messages[k]
                bound == _get_last_sync_time(logs)
            IN  content_hash(m) \notin Fingerprints =>
                    (bound = {} \/ \A t \in bound : m.internalDate >= t)

(***************************************************************************)
(* Properties of the obligations ledger.                                   *)
(***************************************************************************)
\* the SURETY_TXN rows of a response
SuretyRows(r) == {r.items[k] : k \in {j \in DOMAIN r.items : r.items[j].type = "SURETY_TXN"}}

\* C6: a previous-period surety transaction is labelled with the
\* highest-priority exclusion that applies, SKIP > MANUAL_PAID > PERMANENT >
\* COVERED; with a SKIP rule on it, and no current-period transaction to match
\* it, the row shown under full visibility is SKIPPED whatever other rules
\* (MANUAL_PAID, PERMANENT) apply as well.
C6_SkipOutranks ==
    \A r \in ledger :
        (r.include_hidden /\ curr_txns(transactions, today) = <<>>) =>
            \A p_id \in skipped_source_ids(exclusions) :
                \A it \in SuretyRows(r) :
                    it.source_id = {p_id} => it.status = "SKIPPED"

\* C7: without full visibility no SURETY_TXN row has the subcategory
\* (case-insensitively) and the amount of a declared recurring bill, whatever
\* the sign of the stored transaction amount.
C7_CoveredSuppressed ==
    \A r \in ledger :
        ~r.include_hidden =>
            \A it \in SuretyRows(r) :
                ~\E i \in DOMAIN bills :
                    /\ bills[i].is_recurring
                    /\ lower(bills[i].sub_category) = lower(it.sub_category)
                    /\ bills[i].amount = it.amount

(***************************************************************************)
(* Properties of the bill lifecycle and of the recurrence function.        *)
(***************************************************************************)
\* C8: mark_paid(paid=true) on a recurring bill sets a due date strictly
\* later than the previous one and leaves is_paid = false, for every due
\* date and every today.
C8_MarkPaidAdvances ==
    \A e \in last_mark_paid :
        /\ DateLt(e.due_date, bills[e.id].due_date)
        /\ bills[e.id].is_paid = FALSE

\* C8 witness: a recurring bill due today was paid today and now falls due in
\* a later month
C8_Witness ==
    \E e \in last_mark_paid :
        /\ e.due_date = e.today
        /\ bills[e.id].is_recurring
        /\ <<bills[e.id].due_date.year, bills[e.id].due_date.month>>
               # <<e.due_date.year, e.due_date.month>>

\* the clamped recurrence day in the calendar month after the month of d
InFollowingMonth(r_day, d) ==
    LET y == IF d.month = 12 THEN d.year + 1 ELSE d.year
        m == IF d.month = 12 THEN 1 ELSE d.month + 1
    IN  date(y, m, Min(r_day, monthrange(y, m)))

\* C9: when the next occurrence computed from today is not strictly after the
\* current due date, mark_paid(paid=true) sets the due date to the clamped
\* recurrence day in the month immediately following the current due date's
\* month.
C9_NoCycleSkipped ==
    \A e \in last_mark_paid :
        LET r_day == IF bills[e.id].recurrence_day # 0 THEN bills[e.id].recurrence_day
                     ELSE e.due_date.day
        IN  DateLe(_calculate_next_recurrence(r_day, e.today), e.due_date) =>
                bills[e.id].due_date = InFollowingMonth(r_day, e.due_date)

\* whether x is an occurrence of recurrence day d: its day is d clamped to its month
IsOccurrence(d, x) == x.day = Min(d, monthrange(x.year, x.month))

\* C10: for every recurrence day 1..31 and reference date the result is the
\* earliest date >= the reference whose day is min(d, days in its month); it
\* lies in the reference month or the next one, December rolling to January.
C10_EarliestOccurrence ==
    \A r \in next_date :
        /\ DateLe(reference_date, r)
        /\ IsOccurrence(recurrence_day, r)
        /\ \A n \in toordinal(reference_date)..(toordinal(r) - 1) :
               ~IsOccurrence(recurrence_day, fromordinal(n))
        /\ \/ r.year = reference_date.year /\ r.month = reference_date.month
           \/ r.year = reference_date.year /\ r.month = reference_date.month + 1
           \/ /\ reference_date.month = 12
              /\ r.year = reference_date.year + 1 /\ r.month = 1

\* C10 witness: a December reference past the recurrence day rolls to January
C10_Witness ==
    \E r \in next_date :
        /\ reference_date.month = 12
        /\ r.month = 1
        /\ r.year = reference_date.year + 1

\* C11: with recurrence day 31 and a reference date that is day 30 of a
\* 30-day month, _calculate_next_recurrence returns day 30 of the following
\* month, not the reference date itself.
C11_Day31FromDay30 ==
    \A r \in next_date :
        (/\ recurrence_day = 31
         /\ reference_date.day = 30
         /\ monthrange(reference_date.year, reference_date.month) = 30) =>
            /\ r # reference_date
            /\ r = InFollowingMonth(30, reference_date)

(***************************************************************************)
(* Properties of the extraction pipeline and of LLMService.                *)
(***************************************************************************)
\* the calls of the given operation
Calls(op) == {c \in brain : c.op = op}

\* the content generate_response handed back: that of the last request, if it was answered
Answered(c) ==
    IF c.sent # <<>> /\ c.sent[Len(c.sent)].outcome.kind = "response"
                     /\ c.sent[Len(c.sent)].outcome.status = 200
    THEN {c.sent[Len(c.sent)].outcome.content} \ {EmptyContent}
    ELSE {}

\* C12: a message that passes the classifier and whose amount comes from a
\* non-fallback amount pattern gets the rule-derived candidate and no AI
\* call, whatever merchant extraction found and whether or not the AI is
\* enabled.
C12_ConfidentAmountNoAI ==
    \A c \in Calls("call_brain_api") :
        (c.msg.passes_classifier /\ extract_amount(c.msg.amounts).is_confident) =>
            /\ c.sent = <<>>
            /\ c.candidate = {Candidate(CHOOSE r \in extract(c.msg) : TRUE)}

\* content that is not the expected JSON object
Malformed(content) ==
    \/ content.kind \in {"text", "array"}
    \/ /\ content.kind = "object"
       /\ \E a \in content.obj.amount : a.type # "number"

\* C13: a successful AI call whose content is not the expected JSON object
\* is an AI failure: the full-extraction path gives the zero-amount fallback,
\* the enrichment path the rule result, and no exception leaves
\* call_brain_api towards execute_sync.
C13_MalformedIsFailure ==
    \A c \in Calls("call_brain_api") :
        (\E content \in Answered(c) : Malformed(content)) =>
            /\ c.raised = None
            /\ extract(c.msg) = None => c.candidate = {_fallback_txn}

\* C14: every prompt sent to an AI endpoint, the intelligence engine as well
\* as Groq, has been through PII sanitization first.
C14_SanitizedBeforeSend ==
    \A c \in brain :
        \A k \in DOMAIN c.sent : c.sent[k].payload.sanitized

\* C17: _call_intelligence_engine sends at most max_retries + 1 requests and
\* then returns content or nothing; every request but the last ended in a 5xx
\* status or a timeout; no call sends more than one request to Groq.
C17_BoundedRetry ==
    /\ \A c \in Calls("_call_intelligence_engine") :
          /\ Len(c.sent) <= c.max_retries + 1
          /\ Len(c.sent) >= 1
          /\ \A k \in 1..(Len(c.sent) - 1) :
                \/ c.sent[k].outcome.kind = "timeout"
                \/ c.sent[k].outcome.kind = "response" /\ c.sent[k].outcome.status >= 500
          /\ c.content = Answered(c)
    /\ \A c \in brain :
          Cardinality({k \in DOMAIN c.sent : c.sent[k].endpoint = "groq"}) <= 1

\* C17 witness: a call that used all its retries, after a timeout and after a 5xx
C17_Witness ==
    \E c \in Calls("_call_intelligence_engine") :
        /\ c.max_retries >= 2
        /\ Len(c.sent) = c.max_retries + 1
        /\ c.sent[1].outcome.kind = "timeout"
        /\ c.sent[2].outcome.kind = "response" /\ c.sent[2].outcome.status >= 500

\* the calls that took the enrichment path
Enriched ==
    {c \in Calls("call_brain_api") :
        /\ extract(c.msg) # None
        /\ (CHOOSE r \in extract(c.msg) : TRUE)._needs_llm_fallback
        /\ is_enabled(llm)}

\* C18: on the enrichment path the returned amount, currency, direction,
\* account kind and extracted date are the rule-derived ones for every AI
\* response; merchant, category and subcategory change only to a non-empty
\* value.
C18_EnrichKeepsAmount ==
    \A c \in Enriched :
        \A cand \in c.candidate :
            LET rule == Candidate(CHOOSE r \in extract(c.msg) : TRUE)
            IN  /\ cand.amount = rule.amount
                /\ cand.currency = rule.currency
                /\ cand.transaction_type = rule.transaction_type
                /\ cand.account_type = rule.account_type
                /\ cand.extracted_date = rule.extracted_date
                /\ cand.merchant_name # rule.merchant_name => cand.merchant_name # ""
                /\ cand.category # rule.category => cand.category # ""
                /\ cand.sub_category # rule.sub_category => cand.sub_category # ""

\* C18 witness: the AI answered with its own amount and an empty category;
\* the merchant changed, the amount and the category did not
C18_Witness ==
    \E c \in Enriched :
        \E cand \in c.candidate, content \in Answered(c) :
            LET rule == Candidate(CHOOSE r \in extract(c.msg) : TRUE)
            IN  /\ content.kind = "object"
                /\ \E a \in content.obj.amount : a.value # rule.amount
                /\ content.obj.category = {""}
                /\ cand.merchant_name # rule.merchant_name
                /\ cand.amount = rule.amount
                /\ cand.category = rule.category

(***************************************************************************)
(* Properties of execute_sync: fetch failures and the zero-amount skip.    *)
(***************************************************************************)
ReconnectMessage == "Gmail connection lost. Please reconnect."

\* execute_sync called now, Gmail failing the fetch with the given outcome
FetchFails(outcome) ==
    LET s0 == sync_log_start(World, now)
    IN  sync_fetch(s0.w, s0.l, mailbox, outcome)

\* the run-log row the call ended
EndedRow(s) == s.w.logs[s.l.log]

\* C15: a fetch that fails with a credential/authorization failure processes
\* and persists no message, ends the run FAILED with zero records and the
\* reconnect message and notifies the user exactly once; a fetch failure of
\* any other kind ends the run FAILED with another message and no
\* notification.
C15_CredentialFailureFatal ==
    (gmail_credentials /\ \A q \in Procs : run[q].pc \in {"idle", "done"}) =>
        /\ \A outcome \in {"REFRESH_FAILED", "INVALID_GRANT"} :
              LET s == FetchFails(outcome)
              IN  /\ s.l.pc = "done"
                  /\ s.l.messages = <<>> /\ s.l.brain_calls = 0 /\ s.l.processed_count = 0
                  /\ s.w.transactions = transactions
                  /\ EndedRow(s).status = "FAILED"
                  /\ EndedRow(s).records_processed = 0
                  /\ EndedRow(s).error_message = ReconnectMessage
                  /\ s.w.notifications = notifications + 1
        /\ LET s == FetchFails("ERROR")
           IN  /\ s.l.pc = "done"
               /\ s.w.transactions = transactions
               /\ EndedRow(s).status = "FAILED"
               /\ EndedRow(s).records_processed = 0
               /\ EndedRow(s).error_message # ReconnectMessage
               /\ s.w.notifications = notifications

\* C15 witness: a run has ended on a credential failure and another on a
\* failure of another kind, one notification sent in all
C15_Witness ==
    /\ \E i \in DOMAIN logs :
          logs[i].status = "FAILED" /\ logs[i].error_message = ReconnectMessage
    /\ \E i \in DOMAIN logs :
          logs[i].status = "FAILED" /\ logs[i].error_message = "HttpError"
    /\ notifications = 1
    /\ transactions = <<>>

\* the runs that ended on a credential failure
Disconnected == {i \in DOMAIN logs : logs[i].error_message = ReconnectMessage}

\* C16: once the credentials are revoked, and as long as every later run
\* fails on them again (no reconnect), the disconnection notification is sent
\* at most once in total.
C16_NotifiedOnce ==
    (/\ Disconnected # {}
     /\ \A i \in DOMAIN logs :
           (\E d \in Disconnected : d <= i) => i \in Disconnected) =>
        notifications <= 1

\* C19: every transaction execute_sync created has a non-zero amount; a run
\* creates exactly processed_count records, and every fetched message was
\* deduplicated, skipped and counted as extraction-failed or
\* zero-amount-skipped, or persisted.
C19_NoZeroAmountStored ==
    [][Len(logs') > Len(logs) =>
          LET l == run'[1]
          IN  /\ \A i \in DOMAIN transactions' : transactions'[i].amount # 0
              /\ Len(transactions') = Len(transactions) + l.processed_count
              /\ Cardinality({transactions'[i].raw_content_hash : i \in DOMAIN transactions'})
                    = Len(transactions')
              /\ logs'[l.log].status = "SUCCESS" =>
                    l.processed_count + l.dedup_skipped + l.llm_failed
                        + l.zero_amount_skipped = Len(l.messages)]_vars

\* C19 witness: a run of two messages, one with a zero amount from a known
\* merchant skipped, the other persisted
C19_Witness ==
    /\ run[1].pc = "done"
    /\ Len(run[1].messages) = 2
    /\ run[1].zero_amount_skipped = 1
    /\ run[1].processed_count = 1
    /\ Len(transactions) = 1

(***************************************************************************)
(* Properties of the surety rows of the obligations ledger.                *)
(***************************************************************************)
\* the ledger after the two bill passes, before the surety pass
ledger_bills(bs, tday, days_ahead) ==
    ledger_recurring_bills(
        ledger_unpaid_bills(EmptyLedger, bs,
                            SelectSeq(Ids(bs), LAMBDA i : bs[i].is_paid = FALSE), tday),
        bs, SelectSeq(Ids(bs), LAMBDA i : bs[i].is_recurring = TRUE), tday,
        AddDays(tday, days_ahead))

\* estimated date of a previous-period transaction in the current month
EstimatedDate(p_txn, tday) ==
    date(tday.year, tday.month,
         Min(p_txn.transaction_date.day, get_month_date_range(tday).month_end.day))

\* previous-period surety transactions with no exclusion and no current-period match
Unmatched(days_ahead) ==
    {p_id \in {past_txns(transactions, today)[k] :
                   k \in DOMAIN past_txns(transactions, today)} :
        /\ exclusion_reason(p_id, transactions[p_id], exclusions,
                            ledger_bills(bills, today, days_ahead).covered_signatures) = ""
        /\ \A k \in DOMAIN curr_txns(transactions, today) :
              ~is_partner(transactions[p_id],
                          transactions[curr_txns(transactions, today)[k]])}

\* the SURETY_TXN rows of response r for transaction p_id
RowsOf(r, p_id) == {it \in SuretyRows(r) : it.source_id = {p_id}}

\* sum of the amounts of the SURETY_TXN rows with the given status
RECURSIVE SuretyTotal(_, _)
SuretyTotal(items, status) ==
    IF items = <<>> THEN 0
    ELSE (IF Head(items).type = "SURETY_TXN" /\ Head(items).status = status
          THEN Head(items).amount ELSE 0) + SuretyTotal(Tail(items), status)

\* C20: a previous-period surety transaction with no current-period match
\* and no exclusion gets exactly one SURETY_TXN row: PROJECTED, counted in
\* projected_total, when today <= estimated date <= today + days_ahead;
\* OVERDUE, counted in unpaid_total, when the estimated date is before today;
\* no row, and nothing in either total, when it is after the horizon.
C20_UnmatchedSurety ==
    \A r \in ledger :
        /\ \A p_id \in Unmatched(r.days_ahead) :
              LET p_date == EstimatedDate(transactions[p_id], today)
                  rows == RowsOf(r, p_id)
              IN  /\ DateLt(p_date, today) =>
                        /\ Cardinality(rows) = 1
                        /\ \A it \in rows : it.status = "OVERDUE" /\ it.due_date = p_date
                  /\ (DateLe(today, p_date) /\ DateLe(p_date, AddDays(today, r.days_ahead))) =>
                        /\ Cardinality(rows) = 1
                        /\ \A it \in rows : it.status = "PROJECTED" /\ it.due_date = p_date
                  /\ DateLt(AddDays(today, r.days_ahead), p_date) => rows = {}
        /\ r.projected_total = ledger_bills(bills, today, r.days_ahead).projected_total
                                  + SuretyTotal(r.items, "PROJECTED")
        /\ r.unpaid_total = ledger_bills(bills, today, r.days_ahead).unpaid_total
                               + SuretyTotal(r.items, "OVERDUE")

\* C20 witness: one response with an OVERDUE row counted in unpaid_total and
\* an unmatched transaction whose estimated date is after the horizon
C20_Witness ==
    \E r \in ledger :
        \E p_id, q_id \in Unmatched(r.days_ahead) :
            /\ DateLt(EstimatedDate(transactions[p_id], today), today)
            /\ \E it \in RowsOf(r, p_id) : it.status = "OVERDUE" /\ r.unpaid_total >= it.amount
            /\ DateLt(AddDays(today, r.days_ahead), EstimatedDate(transactions[q_id], today))
            /\ RowsOf(r, q_id) = {}

(***************************************************************************)
(* Properties of the matching of surety transactions across periods.       *)
(***************************************************************************)
\* the elements of a sequence
Range(seq) == {seq[k] : k \in DOMAIN seq}

\* c can stand for this period's payment of p: equal magnitudes and the same
\* merchant, the same subcategory, or one merchant name inside the other
\* (letter case ignored)
SameObligation(p, c) ==
    /\ Abs(p.amount) = Abs(c.amount)
    /\ \/ lower(p.merchant_name) = lower(c.merchant_name)
       \/ lower(p.sub_category) = lower(c.sub_category)
       \/ /\ p.merchant_name # "" /\ c.merchant_name # ""
          /\ \/ StrIn(lower(p.merchant_name), lower(c.merchant_name))
             \/ StrIn(lower(c.merchant_name), lower(p.merchant_name))

\* the pairs <<previous, current>> the matching is to produce: each previous
\* transaction in turn takes the first current one, in query order, that is
\* not yet claimed and can stand for it
RECURSIVE ClaimedPairs(_, _, _, _)
ClaimedPairs(txns, p_ids, c_ids, claimed) ==
    IF p_ids = <<>> THEN {}
    ELSE LET free == {k \in DOMAIN c_ids :
                         /\ c_ids[k] \notin claimed
                         /\ SameObligation(txns[Head(p_ids)], txns[c_ids[k]])}
         IN  IF free = {}
             THEN ClaimedPairs(txns, Tail(p_ids), c_ids, claimed)
             ELSE LET first == c_ids[CHOOSE k \in free : \A j \in free : k <= j]
                  IN  {<<Head(p_ids), first>>}
                         \cup ClaimedPairs(txns, Tail(p_ids), c_ids, claimed \cup {first})

\* the previous-period transactions matched in the current period
Matched ==
    {pair[1] : pair \in ClaimedPairs(transactions, past_txns(transactions, today),
                                     curr_txns(transactions, today), {})}

\* the previous-period transactions an exclusion applies to, for a horizon
Excluded(days_ahead) ==
    {p_id \in Range(past_txns(transactions, today)) :
        exclusion_reason(p_id, transactions[p_id], exclusions,
                         ledger_bills(bills, today, days_ahead).covered_signatures) # ""}

\* the response to the same request with the visibility flag flipped
OtherVisibility(r) ==
    obligations_ledger(bills, transactions, exclusions, today, r.days_ahead,
                       ~r.include_hidden)

\* C21: a previous-period surety transaction that is matched in the current
\* period or excluded gets no row when include_hidden is false and never a
\* row that counts (PROJECTED or OVERDUE); unpaid_total and projected_total
\* are the same with include_hidden true and false.
C21_HiddenRowsCountNothing ==
    \A r \in ledger :
        /\ \A p_id \in Matched \cup Excluded(r.days_ahead) :
              /\ ~r.include_hidden => RowsOf(r, p_id) = {}
              /\ \A it \in RowsOf(r, p_id) : it.status \notin {"PROJECTED", "OVERDUE"}
        /\ r.unpaid_total = OtherVisibility(r).unpaid_total
        /\ r.projected_total = OtherVisibility(r).projected_total
        /\ r.unpaid_total = ledger_bills(bills, today, r.days_ahead).unpaid_total
                               + SuretyTotal(r.items, "OVERDUE")
        /\ r.projected_total = ledger_bills(bills, today, r.days_ahead).projected_total
                                  + SuretyTotal(r.items, "PROJECTED")

\* C21 witness: under full visibility a matched transaction is shown PAID and
\* an excluded one under its label, and the hidden-visibility response to the
\* same request has the same totals and fewer rows
C21_Witness ==
    \E r \in ledger :
        /\ r.include_hidden
        /\ \E p_id \in Matched : \E it \in RowsOf(r, p_id) : it.status = "PAID"
        /\ \E p_id \in Excluded(r.days_ahead) \ Matched :
              \E it \in RowsOf(r, p_id) : it.status \in {"SKIPPED", "TERMINATED", "COVERED"}
        /\ Len(OtherVisibility(r).items) < Len(r.items)
        /\ OtherVisibility(r).unpaid_total = r.unpaid_total

\* the surety pass of the request that produced response r
SuretyPass(r) ==
    ledger_surety(ledger_bills(bills, today, r.days_ahead), transactions,
                  past_txns(transactions, today), curr_txns(transactions, today),
                  exclusions, today, AddDays(today, r.days_ahead), r.include_hidden)

\* C22: each current-period surety transaction is claimed by at most one
\* previous-period transaction; a previous-period transaction is matched
\* exactly when a not-yet-claimed current-period transaction has the same
\* absolute amount and the same merchant, the same subcategory or a
\* containing/contained merchant name, and it claims the first such one in
\* query order.
C22_FirstUnclaimedMatch ==
    \A r \in ledger :
        LET pairs == ClaimedPairs(transactions, past_txns(transactions, today),
                                  curr_txns(transactions, today), {})
        IN  /\ SuretyPass(r).matched_curr_ids = {pair[2] : pair \in pairs}
            /\ Cardinality(SuretyPass(r).matched_curr_ids) = Cardinality(Matched)
            /\ \A p_id \in Range(past_txns(transactions, today)) :
                  /\ (r.include_hidden /\ p_id \notin manual_paid_ids(exclusions)) =>
                        ((\E it \in RowsOf(r, p_id) : it.status = "PAID") <=> p_id \in Matched)
                  /\ (r.include_hidden /\ p_id \in Matched) =>
                        /\ Cardinality(RowsOf(r, p_id)) = 1
                        /\ \A it \in RowsOf(r, p_id) : it.status = "PAID"
                  /\ (~r.include_hidden /\ p_id \in Matched) => RowsOf(r, p_id) = {}

\* C22 witness: two previous-period transactions that the same single
\* current-period transaction could stand for; the first is shown PAID, the
\* second is not
C22_Witness ==
    \E r \in ledger :
        /\ r.include_hidden /\ exclusions = {} /\ bills = <<>>
        /\ Len(curr_txns(transactions, today)) = 1
        /\ \E p_id, q_id \in Range(past_txns(transactions, today)) :
              /\ p_id < q_id
              /\ \A x \in {p_id, q_id} :
                    SameObligation(transactions[x],
                                   transactions[curr_txns(transactions, today)[1]])
              /\ \E it \in RowsOf(r, p_id) : it.status = "PAID"
              /\ \E it \in RowsOf(r, q_id) : it.status \in {"OVERDUE", "PROJECTED"}

(***************************************************************************)
(* Properties of the bills the ledger reads.                               *)
(***************************************************************************)
\* C23: unpaid_total and projected_total of every get_obligations_ledger
\* response are >= 0, for every bill the create and update operations accept.
C23_TotalsNonNegative ==
    \A r \in ledger : r.unpaid_total >= 0 /\ r.projected_total >= 0

\* C27: after any sequence of create_bill, update_bill and mark_paid calls
\* every bill with is_recurring = true has a recurrence_day set.
C27_RecurringHasDay ==
    \A i \in DOMAIN bills : bills[i].is_recurring => bills[i].recurrence_day # 0

\* the rows of response r with the given id
RowsWithId(r, id) == {r.items[k] : k \in {j \in DOMAIN r.items : r.items[j].id = id}}

\* C30: for every bill the ledger never holds both the bill's own row
\* (PENDING or OVERDUE) and its projected row (PROJECTED) with the same due
\* date.
C30_NoDoubleCount ==
    \A r \in ledger :
        \A i \in DOMAIN bills :
            \A own \in RowsWithId(r, <<"bill", i>>), proj \in RowsWithId(r, <<"proj", i>>) :
                own.due_date # proj.due_date

\* C30 witness: an unpaid recurring bill whose due date is its next
\* occurrence, inside the window: its own row is there, no projected row
C30_Witness ==
    \E r \in ledger :
        \E i \in DOMAIN bills :
            /\ bills[i].is_recurring /\ ~bills[i].is_paid /\ bills[i].recurrence_day # 0
            /\ _calculate_next_recurrence(bills[i].recurrence_day, today) = bills[i].due_date
            /\ DateLe(today, bills[i].due_date)
            /\ DateLe(bills[i].due_date, AddDays(today, r.days_ahead))
            /\ RowsWithId(r, <<"bill", i>>) # {}
            /\ RowsWithId(r, <<"proj", i>>) = {}

(***************************************************************************)
(* Properties of the classifier and of the amount patterns.                *)
(***************************************************************************)
\* per gate, in the order of the layers: whether the email passes it
Gates(email) ==
    <<\/ email.sender = ""
      \/ sender_domain(email.sender) \in TRUSTED_SENDER_DOMAINS
      \/ email.sender \in TRUSTED_SENDERS,
      Hits(MARKETING_SUBJECT_PATTERNS, email.subject) < 2,
      Hits(TRANSACTION_SUBJECT_PATTERNS, email.subject) > 0,
      Hits(MARKETING_BODY_SIGNALS, email.body) < 3,
      Hits(REQUIRED_BODY_SIGNALS, email.body) > 0,
      Hits(SUPPORTING_BODY_SIGNALS, email.body) > 0>>

\* every email with its Gates, computed once
GatePairs == {<<email, Gates(email)>> : email \in Emails}

GatesOf(email) == (CHOOSE p \in GatePairs : p[1] = email)[2]

\* the reason code of each gate
GateCodes ==
    <<"UNTRUSTED_SENDER", "MARKETING_SUBJECT", "NO_TXN_SUBJECT_KEYWORD", "MARKETING_BODY",
      "NO_REQUIRED_BODY_SIGNAL", "NO_SUPPORTING_BODY_SIGNAL">>

\* reason.startswith(code)
StartsWith(reason, code) == Len(reason) >= Len(code) /\ SubSeq(reason, 1, Len(code)) = code

\* the emails call_brain_api was run on
EmailCalls == {c \in Calls("call_brain_api") : "email" \in DOMAIN c.msg}

\* C24: is_transaction_email accepts an email exactly when it passes all six
\* gates, and a rejection carries the reason code of the first gate that fails,
\* in the order sender trust, marketing subject, transaction subject keyword,
\* marketing body, required body signal, supporting body signal; the subject
\* "Your OTP for login" from a trusted sender is rejected with
\* NO_TXN_SUBJECT_KEYWORD whatever the body.
C24_FirstFailingGate ==
    \A c \in EmailCalls :
        LET gates == GatesOf(c.msg.email)
        IN  /\ c.msg.passes_classifier <=> \A i \in 1..6 : gates[i]
            /\ c.msg.passes_classifier => c.msg.reason = "PASSED_ALL_LAYERS"
            /\ ~c.msg.passes_classifier =>
                  \E i \in 1..6 : /\ ~gates[i]
                                  /\ \A j \in 1..(i - 1) : gates[j]
                                  /\ StartsWith(c.msg.reason, GateCodes[i])
            /\ (c.msg.email.subject = <<"Your", "OTP", "for", "login">> /\ gates[1]) =>
                  c.msg.reason = "NO_TXN_SUBJECT_KEYWORD"

\* the OTP subject from a trusted sender, with a body that passes every body
\* gate, was rejected for its subject
C24_Witness ==
    \E c \in EmailCalls :
        /\ c.msg.email.sender = "alerts@hdfcbank.net"
        /\ c.msg.email.subject = <<"Your", "OTP", "for", "login">>
        /\ \A i \in 4..6 : GatesOf(c.msg.email)[i]
        /\ ~c.msg.passes_classifier
        /\ c.msg.reason = "NO_TXN_SUBJECT_KEYWORD"

\* C25: for the text "Rs. 1,499.00 debited from your account" the extractor gives
\* the amount 1499.00 (in hundredths here), the direction DEBIT and the
\* confidence flag set, the amount being matched by a pattern other than the
\* bare currency-number one.
C25_VerbAfterAmountConfident ==
    \A c \in Calls("extract_amount") :
        c.text = <<"Rs.", "1,499.00", "debited", "from", "your", "account">> =>
            /\ c.found.amount = 149900
            /\ c.transaction_type = "DEBIT"
            /\ c.found.is_confident
            /\ \E i \in 1..(NumAmountPatterns - 1) : amount_matches(c.text)[i] # {}

\* C26: for every email that fails one of the six classifier gates while the
\* AI collaborator is disabled, call_brain_api returns the zero-amount fallback
\* candidate and sends no request.
C26_RejectedOfflineFallback ==
    \A c \in EmailCalls :
        ((\E i \in 1..6 : ~GatesOf(c.msg.email)[i]) /\ ~is_enabled(llm)) =>
            /\ c.candidate = {_fallback_txn}
            /\ _fallback_txn.amount = 0
            /\ c.raised = None
            /\ c.sent = <<>>

\* an email whose text holds an amount failed a gate with the AI disabled and
\* came back as the fallback
C26_Witness ==
    \E c \in EmailCalls :
        /\ \E i \in 1..6 : ~GatesOf(c.msg.email)[i]
        /\ ~is_enabled(llm)
        /\ extract_amount(c.msg.amounts).amount > 0
        /\ c.candidate = {_fallback_txn}
        /\ c.sent = <<>>

(***************************************************************************)
(* Properties of what a run stores and reports.                            *)
(***************************************************************************)
\* C28: every transaction execute_sync persists has the amount -|extracted
\* amount| when the direction is DEBIT and the category is not Income, and
\* +|extracted amount| when the category is Income or the direction is CREDIT;
\* the stored magnitude equals the extracted one.
C28_SignFollowsDirection ==
    [][\A r \in Procs :
          (run[r].pc = "persist" /\ Len(transactions') = Len(transactions) + 1) =>
              LET cand == run[r].extracted
                  row == transactions'[Len(transactions')]
              IN  /\ (cand.transaction_type = "DEBIT" /\ cand.category # "Income") =>
                         row.amount = -Abs(cand.amount)
                  /\ (cand.category = "Income" \/ cand.transaction_type = "CREDIT") =>
                         row.amount = Abs(cand.amount)
                  /\ Abs(row.amount) = Abs(cand.amount)]_vars

\* C29: at the end of every run, SUCCESS or FAILED, the records_processed
\* written to the sync log equals the number of transactions the run
\* persisted, and on SUCCESS the summary has that many entries.
C29_LoggedCountIsPersisted ==
    [][Len(logs') > Len(logs) =>
          LET entry == logs'[run'[1].log]
              persisted == Len(transactions') - Len(transactions)
          IN  /\ entry.status \in {"SUCCESS", "FAILED"}
              /\ entry.records_processed = persisted
              /\ entry.status = "SUCCESS" => Len(entry.summary) = persisted]_vars

====
